---- MODULE Spec2Model ----
(***************************************************************************)
(* FireFlyJar: the cooperative tick scheduler (system.c) and the           *)
(* time-division multiplexed LED output driver (leds.c, on gpio.c).        *)
(*                                                                         *)
(* Spec        the scheduler: system_add_task / system_remove_task called  *)
(*             from main or from inside a task at any time, and the first  *)
(*             MaxTicks runs of SysTick_Handler, one slot at a time.       *)
(* SpecSteady  the scheduler as main uses it: the tasks are registered     *)
(*             before the first timer event and the handler then runs for  *)
(*             ever, the counter wrapping around.                          *)
(* SpecLed     the output driver: led_init, led_set_brightness and         *)
(*             led_periodic_callback -> led_update_brightness, one         *)
(*             register write at a time.                                   *)
(* SpecBright  the brightness functions of fireflies.c applied to a flash  *)
(*             pattern, a flash time and a smoothing value.                *)
(* SpecFly     the animation engine: firefly_init and                      *)
(*             firefly_periodic_callback, one firefly at a time.           *)
(* SpecFlyFair the animation engine called for ever, with the minimum      *)
(*             delay between the flashes.                                  *)
(* SpecGpio    the gpio_* functions of gpio.c applied to a pin descriptor  *)
(*             and a register state.                                       *)
(* SpecPreempt the scheduler with system_add_task and system_remove_task   *)
(*             called from main one store at a time, a timer event being   *)
(*             able to fall between two stores.                            *)
(* SpecMain    main.c: main registers the driver, the engine and the       *)
(*             timeout callback, and the tick handler calls them, each     *)
(*             invocation a single step.                                   *)
(* SpecTimeout main.c: the hold-power pin and main_timeout_callback, one   *)
(*             invocation per touch reading.                               *)
(***************************************************************************)
EXTENDS Integers, Sequences, FiniteSets, TLC

(***************************************************************************)
(* Bounds of the model.                                                    *)
(*   SYSTEM_TASKS_MAX  system.h:25 sets 10; the table code is uniform in   *)
(*                     the capacity and is checked here on a short table.  *)
(*   CounterBits       the tick counter is a uint32_t (system.c:241); the  *)
(*                     model keeps unsigned wraparound at 2^CounterBits.   *)
(*   MaxCalls          how many system_add_task / system_remove_task calls *)
(*                     a run makes.                                        *)
(*   MaxTicks          how many timer events a run of Spec sees.           *)
(*   NUMBER_OF_FIREFLIES  fireflies.c:27 sets LED_COUNT (8); the engine    *)
(*                     treats each firefly alike and is checked here on a  *)
(*                     short array.                                        *)
(*   TimeoutBits       s_timeout_counter is a uint32_t (main.c:54); the    *)
(*                     model keeps unsigned wraparound at 2^TimeoutBits.   *)
(*   TIMEOUT_MS        main.c:32 sets 900000 invocations; the callback is  *)
(*                     uniform in the threshold and is checked on a short  *)
(*                     one.                                                *)
(*   MaxFlashTime      the largest flash time handed to the brightness     *)
(*                     functions; the longest pattern lasts 1000 and the   *)
(*                     widest smoothing window reaches 250 beyond it.      *)
(***************************************************************************)
SYSTEM_TASKS_MAX == 3

CounterBits == 4

MaxCalls == 4

MaxTicks == 6

MaxFlashTime == 1300

NUMBER_OF_FIREFLIES == 1

TimeoutBits == 7

TIMEOUT_MS == 5

CounterMod == 2 ^ CounterBits

NULL == 0

\* Task function pointers: one more than the table can hold.
Tasks == 1 .. (SYSTEM_TASKS_MAX + 1)

\* Periods passed to system_add_task: 0 (clamped), 1, and 5 (no divisor of 2^w).
Periods == {0, 1, 5}

\* The periods each task is registered with by its owner.
PeriodsOf(tsk) == IF tsk <= 2 THEN {5} ELSE IF tsk = 3 THEN {0, 5} ELSE {1}

Slots == 0 .. (SYSTEM_TASKS_MAX - 1)

VARIABLES
    s_task_list,    \* system.c:45  slot -> [task, period]
    counter,        \* system.c:241 static uint32_t counter
    pc,             \* "main" (between ticks), "tick" (in the loop), "ret" (loop done), "fault"
    i,              \* system.c:246 loop index of execute_tasks
    ncalls,         \* number of scheduler API calls made so far
    call,           \* the API call made by the last step (None otherwise)
    fired,          \* the invocations of the current tick, in order
    start,          \* s_task_list as it stood when the current tick began
    nticks,         \* timer events so far, counted up to 2^CounterBits
    last            \* slot -> ticks since it last fired in this registration, -1 if not yet

schedVars == <<s_task_list, counter, pc, i, ncalls, call, fired, start, nticks, last>>

VARIABLES
    led_ready,          \* led_init has returned
    s_led_brightness,   \* leds.c:71  channel -> brightness
    led_id,             \* leds.c:192 static led_id of led_periodic_callback
    lpc,                \* statement of led_update_brightness to run next, "idle" outside
    sel,                \* leds.c:356 loop index of dac_set_led
    arg,                \* parameters of the current (or latest) led_update_brightness
    DAC_DHR12R1,        \* DAC->DHR12R1, the 12-bit output level
    GPIOA_MODER,        \* pin -> mode bits of GPIOA->MODER
    GPIOA_ODR,          \* the pins of GPIOA driven high
    dcalls,             \* the dac_* calls of the current (or latest) invocation, in order
    level_for,          \* channel -> the level the driver last programmed for it
    hist,               \* channels addressed by the latest invocations, oldest first
    pending,            \* channel -> invocations begun since its unapplied write, -1: none
    written             \* channel handed to led_set_brightness since the latest
                        \* invocation, -1: none

ledVars == <<led_ready, s_led_brightness, led_id, lpc, sel, arg, DAC_DHR12R1,
             GPIOA_MODER, GPIOA_ODR, dcalls, level_for, hist, pending, written>>

VARIABLES
    calc_fn,            \* the brightness function that was called, "none" before
    calc_in,            \* its parameters: flash_id, flash_time, smoothing
    calc_out            \* its return value

calcVars == <<calc_fn, calc_in, calc_out>>

VARIABLES
    fly_ready,          \* firefly_init has returned
    s_fireflies,        \* fireflies.c:182 firefly -> firefly_type
    fpc,                \* "idle", or "loop" inside firefly_periodic_callback
    fly_i,              \* fireflies.c:522 loop index of firefly_periodic_callback
    waits               \* firefly -> invocations that found it waiting since it
                        \* last flashed (or since firefly_init)

flyVars == <<fly_ready, s_fireflies, fpc, fly_i, waits>>

VARIABLES
    gpio,               \* the pin descriptor handed to the gpio_* functions
    regs,               \* the registers of the port and the clock enable bits of RCC
    gpio_fn,            \* the gpio_* function that was called last, "none" before
    gpio_state,         \* the state handed to gpio_output_set
    gpio_before,        \* the registers when that function was called
    gpio_ret            \* gpio_input_read: the value returned, and whether IDR was read

gpioVars == <<gpio, regs, gpio_fn, gpio_state, gpio_before, gpio_ret>>

VARIABLES
    power_held,         \* main has configured the hold-power pin and driven it high
    timeout_ready,      \* main has registered main_timeout_callback
    s_timeout_counter,  \* main.c:54 volatile static uint32_t s_timeout_counter
    touch,              \* what touch_read returned to the latest invocation
    idle_run,           \* consecutive invocations, ending with the latest, that read
                        \* the sensor inactive
    drove               \* the level the latest invocation drove the hold-power pin
                        \* to, "none" if it did not drive it

mainVars == <<power_held, timeout_ready, s_timeout_counter, touch, idle_run, drove>>

VARIABLES
    mpc,                \* where main stands inside system_add_task or
                        \* system_remove_task: "idle" outside, "add_period" before
                        \* system.c:88, "remove_period" before system.c:196
    mreq,               \* the slot that call is writing, its task and its period
    want,               \* slot -> the period asked for when its task pointer was
                        \* written, clamped to 1; 0 for a slot never written
    shown,              \* channel -> how often the driver has programmed it since
                        \* the engine's latest invocation wrote it, -1: not written
    wrote_at            \* channel -> the tick counter when the engine wrote the
                        \* value that is still to be programmed, -1: none

runVars == <<mpc, mreq, want, shown, wrote_at>>

\* A macro that does not clamp.
max_valFirst(val1, val2) == val1

max_val(val1, val2) == IF val1 > val2 THEN val1 ELSE val2

EmptySlot == [task |-> NULL, period |-> 0]

None == [op |-> "none", tsk |-> NULL, prd |-> 0]

\* A scan that, finding the table full, overwrites its last slot.
RECURSIVE AddFromOverwrite(_, _, _, _)
AddFromOverwrite(list, idx, tsk, prd) ==
    IF idx >= SYSTEM_TASKS_MAX
    THEN [list EXCEPT ![SYSTEM_TASKS_MAX - 1] = [task |-> tsk, period |-> max_val(prd, 1)]]
    ELSE IF list[idx].task = NULL
         THEN [list EXCEPT ![idx] = [task |-> tsk, period |-> max_val(prd, 1)]]
    ELSE IF list[idx].task = tsk THEN list
    ELSE AddFromOverwrite(list, idx + 1, tsk, prd)

\* A scan that takes the last empty slot of the table instead of the first.
system_add_taskLastFree(list, tsk, prd) ==
    IF \E idx \in 0 .. (SYSTEM_TASKS_MAX - 1) : list[idx].task = tsk THEN list
    ELSE LET E == {idx \in 0 .. (SYSTEM_TASKS_MAX - 1) : list[idx].task = NULL}
         IN  IF E = {} THEN list
             ELSE LET idx == CHOOSE k \in E : \A m \in E : m <= k
                  IN  [list EXCEPT ![idx] = [task |-> tsk, period |-> max_val(prd, 1)]]

(***************************************************************************)
(* system_add_task: the first slot that is empty takes the task; the scan  *)
(* stops, without writing, at a slot that already holds the task.          *)
(***************************************************************************)
RECURSIVE AddFrom(_, _, _, _)
AddFrom(list, idx, tsk, prd) ==
    IF idx >= SYSTEM_TASKS_MAX THEN list
    ELSE IF list[idx].task = NULL
         THEN [list EXCEPT ![idx] = [task |-> tsk, period |-> max_val(prd, 1)]]
    ELSE IF list[idx].task = tsk THEN list
    ELSE AddFrom(list, idx + 1, tsk, prd)

system_add_task(list, tsk, prd) == AddFrom(list, 0, tsk, prd)

\* What system_add_task hands back to its caller: it is declared void.
AddResult(list, tsk, prd) == "void"

\* A removal that zeroes the period but leaves the task pointer.
RemoveLeavesTask(list, tsk) ==
    [idx \in Slots |-> IF list[idx].task = tsk
                       THEN [task |-> tsk, period |-> 0]
                       ELSE list[idx]]

\* A removal that also clears every slot after the task's.
RemoveClearingFrom(list, tsk) ==
    [idx \in Slots |->
        IF \E j \in Slots : j <= idx /\ list[j].task = tsk
        THEN EmptySlot ELSE list[idx]]

(***************************************************************************)
(* system_remove_task: every slot holding the task is cleared.             *)
(***************************************************************************)
system_remove_task(list, tsk) ==
    [idx \in Slots |-> IF list[idx].task = tsk THEN EmptySlot ELSE list[idx]]

\* The calls a caller can make: op, task, period.
ApiCalls ==
    {c \in [op : {"add"}, tsk : Tasks, prd : Periods] : c.prd \in PeriodsOf(c.tsk)}
        \cup [op : {"remove"}, tsk : Tasks, prd : {0}]

Apply(list, c) ==
    IF c.op = "add" THEN system_add_task(list, c.tsk, c.prd)
    ELSE IF c.op = "remove" THEN system_remove_task(list, c.tsk)
    ELSE list

\* Slots whose entry a call rewrites lose their registration history.
Touched(list, c) == {idx \in Slots : Apply(list, c)[idx] # list[idx]}

AfterCall(c) ==
    /\ s_task_list' = Apply(s_task_list, c)
    /\ call' = c
    /\ ncalls' = IF c.op = "none" THEN ncalls ELSE ncalls + 1


\* A slot rewritten by a call starts a new registration; the slot that just ran has fired.
LastAfter(c, ran) ==
    [idx \in Slots |->
        IF idx \in Touched(s_task_list, c) THEN -1
        ELSE IF idx \in ran THEN 0
        ELSE last[idx]]

(***************************************************************************)
(* main (and the init functions it calls) registering or removing a task   *)
(* between two timer events.                                               *)
(***************************************************************************)
MainAddTask ==
    /\ pc = "main"
    /\ ncalls < MaxCalls
    /\ \E tsk \in Tasks : \E prd \in PeriodsOf(tsk) :
        LET c == [op |-> "add", tsk |-> tsk, prd |-> prd]
        IN  AfterCall(c) /\ last' = LastAfter(c, {})
    /\ UNCHANGED <<counter, pc, i, fired, start, nticks>>
    /\ UNCHANGED <<ledVars, calcVars, gpioVars, flyVars, mainVars, runVars>>

MainRemoveTask ==
    /\ pc = "main"
    /\ ncalls < MaxCalls
    /\ \E tsk \in Tasks :
        LET c == [op |-> "remove", tsk |-> tsk, prd |-> 0]
        IN  AfterCall(c) /\ last' = LastAfter(c, {})
    /\ UNCHANGED <<counter, pc, i, fired, start, nticks>>
    /\ UNCHANGED <<ledVars, calcVars, gpioVars, flyVars, mainVars, runVars>>

(***************************************************************************)
(* SysTick_Handler -> execute_tasks, up to the loop: counter++.            *)
(***************************************************************************)
SysTick_Handler ==
    /\ pc = "main"
    /\ counter' = (counter + 1) % CounterMod
    /\ pc' = "tick"
    /\ i' = 0
    /\ fired' = <<>>
    /\ start' = s_task_list
    /\ last' = [idx \in Slots |-> IF last[idx] >= 0 THEN last[idx] + 1 ELSE -1]
    /\ call' = None
    /\ nticks' = IF nticks < CounterMod THEN nticks + 1 ELSE nticks
    /\ UNCHANGED <<s_task_list, ncalls>>
    /\ UNCHANGED <<ledVars, calcVars, gpioVars, flyVars, mainVars, runVars>>

(***************************************************************************)
(* (counter + i) % period in uint32_t arithmetic.  With period 0 the       *)
(* division is undefined: on the Cortex-M4 it yields quotient 0, so the    *)
(* remainder is the dividend, or it raises a UsageFault (DIV_0_TRP); any   *)
(* other value, 0 included, is allowed to a conforming build.              *)
(***************************************************************************)
\* A test that leaves out the slot's phase offset.
DividendNoPhase(cnt, idx) == cnt % CounterMod

Dividend(cnt, idx) == (cnt + idx) % CounterMod

Remainders(a, p) == IF p = 0 THEN {a, 0} ELSE {a % p}

Elapsed(r, task) == r = 0 /\ task # NULL

LoopNext ==
    /\ i' = IF i + 1 < SYSTEM_TASKS_MAX THEN i + 1 ELSE 0
    /\ pc' = IF i + 1 < SYSTEM_TASKS_MAX THEN "tick" ELSE "ret"

\* One pass of the loop body whose test fails: the task is not called.
SkipTask ==
    /\ pc = "tick"
    /\ \E r \in Remainders(Dividend(counter, i), s_task_list[i].period) :
        ~Elapsed(r, s_task_list[i].task)
    /\ LoopNext
    /\ call' = None
    /\ UNCHANGED <<s_task_list, counter, ncalls, fired, start, nticks, last>>
    /\ UNCHANGED <<ledVars, calcVars, gpioVars, flyVars, mainVars, runVars>>

\* One pass whose test succeeds: cur_task->task() runs to completion, calling nothing.
RunTask ==
    /\ pc = "tick"
    /\ \E r \in Remainders(Dividend(counter, i), s_task_list[i].period) :
        Elapsed(r, s_task_list[i].task)
    /\ fired' = Append(fired, [slot |-> i, task |-> s_task_list[i].task])
    /\ LoopNext
    /\ AfterCall(None)
    /\ last' = LastAfter(None, {i})
    /\ UNCHANGED <<counter, start, nticks>>
    /\ UNCHANGED <<ledVars, calcVars, gpioVars, flyVars, mainVars, runVars>>

\* The same, with a task that registers or removes a task while it runs.
RunTaskCalling ==
    /\ pc = "tick"
    /\ ncalls < MaxCalls
    /\ \E r \in Remainders(Dividend(counter, i), s_task_list[i].period) :
        Elapsed(r, s_task_list[i].task)
    /\ fired' = Append(fired, [slot |-> i, task |-> s_task_list[i].task])
    /\ LoopNext
    /\ \E c \in ApiCalls : AfterCall(c) /\ last' = LastAfter(c, {i})
    /\ UNCHANGED <<counter, start, nticks>>
    /\ UNCHANGED <<ledVars, calcVars, gpioVars, flyVars, mainVars, runVars>>

\* The division by zero of an empty slot traps: the handler never returns.
DivideByZeroTrap ==
    /\ pc = "tick"
    /\ s_task_list[i].period = 0
    /\ pc' = "fault"
    /\ call' = None
    /\ UNCHANGED <<s_task_list, counter, i, ncalls, fired, start, nticks, last>>
    /\ UNCHANGED <<ledVars, calcVars, gpioVars, flyVars, mainVars, runVars>>

\* execute_tasks and SysTick_Handler return; main resumes.
HandlerReturn ==
    /\ pc = "ret"
    /\ pc' = "main"
    /\ fired' = <<>>
    /\ start' = [idx \in Slots |-> EmptySlot]
    /\ call' = None
    /\ UNCHANGED <<s_task_list, counter, i, ncalls, nticks, last>>
    /\ UNCHANGED <<ledVars, calcVars, gpioVars, flyVars, mainVars, runVars>>

(***************************************************************************)
(* system_add_task and system_remove_task one store at a time: the table   *)
(* is volatile, so the stores reach memory in program order, and SysTick   *)
(* is enabled by system_init before main registers its tasks, so a timer   *)
(* event can fall between any two of them.                                 *)
(***************************************************************************)
\* The slots holding tsk at or above slot from.
RemoveMatches(list, tsk, from) == {k \in Slots : k >= from /\ list[k].task = tsk}

\* system_add_task up to and including the store of the task pointer.
AddWriteTask ==
    /\ pc = "main"
    /\ mpc = "idle"
    /\ ncalls < MaxCalls
    /\ \E tsk \in Tasks : \E prd \in PeriodsOf(tsk) :
        LET c == [op |-> "add", tsk |-> tsk, prd |-> prd]
            T == Touched(s_task_list, c)
        IN  /\ call' = c
            /\ ncalls' = ncalls + 1
            /\ IF T = {}
               THEN UNCHANGED <<s_task_list, mpc, mreq, want, last>>
               ELSE LET idx == CHOOSE k \in T : TRUE
                    IN  /\ s_task_list' = [s_task_list EXCEPT ![idx].task = tsk]
                        /\ mpc' = "add_period"
                        /\ mreq' = [idx |-> idx, tsk |-> tsk, prd |-> prd]
                        /\ want' = [want EXCEPT ![idx] = max_val(prd, 1)]
                        /\ last' = [last EXCEPT ![idx] = -1]
    /\ UNCHANGED <<counter, pc, i, fired, start, nticks, shown, wrote_at>>
    /\ UNCHANGED <<ledVars, calcVars, gpioVars, flyVars, mainVars>>

\* system_add_task, the store of the period, and the return.
AddWritePeriod ==
    /\ pc = "main"
    /\ mpc = "add_period"
    /\ s_task_list' = [s_task_list EXCEPT ![mreq.idx].period = max_val(mreq.prd, 1)]
    /\ mpc' = "idle"
    /\ call' = None
    /\ UNCHANGED <<counter, pc, i, ncalls, fired, start, nticks, last>>
    /\ UNCHANGED <<mreq, want, shown, wrote_at>>
    /\ UNCHANGED <<ledVars, calcVars, gpioVars, flyVars, mainVars>>

\* system_remove_task from its start, or from the slot after the one it has
\* cleared, up to and including the next store of a NULL task pointer.
RemoveClearTask ==
    /\ pc = "main"
    /\ \/ mpc = "idle" /\ ncalls < MaxCalls
       \/ mpc = "remove"
    /\ \E tsk \in Tasks :
        /\ mpc = "remove" => tsk = mreq.tsk
        /\ LET from == IF mpc = "remove" THEN mreq.idx + 1 ELSE 0
               M == RemoveMatches(s_task_list, tsk, from)
           IN  /\ call' = [op |-> "remove", tsk |-> tsk, prd |-> 0]
               /\ ncalls' = IF mpc = "idle" THEN ncalls + 1 ELSE ncalls
               /\ IF M = {}
                  THEN /\ mpc' = "idle"
                       /\ UNCHANGED <<s_task_list, mreq, want, last>>
                  ELSE LET idx == CHOOSE k \in M : \A m \in M : k <= m
                       IN  /\ s_task_list' = [s_task_list EXCEPT ![idx].task = NULL]
                           /\ mpc' = "remove_period"
                           /\ mreq' = [idx |-> idx, tsk |-> tsk, prd |-> 0]
                           /\ want' = [want EXCEPT ![idx] = 0]
                           /\ last' = [last EXCEPT ![idx] = -1]
    /\ UNCHANGED <<counter, pc, i, fired, start, nticks, shown, wrote_at>>
    /\ UNCHANGED <<ledVars, calcVars, gpioVars, flyVars, mainVars>>

\* system_remove_task, the store of period 0 to the slot it has just cleared.
RemoveClearPeriod ==
    /\ pc = "main"
    /\ mpc = "remove_period"
    /\ s_task_list' = [s_task_list EXCEPT ![mreq.idx].period = 0]
    /\ mpc' = "remove"
    /\ call' = None
    /\ UNCHANGED <<counter, pc, i, ncalls, fired, start, nticks, last>>
    /\ UNCHANGED <<mreq, want, shown, wrote_at>>
    /\ UNCHANGED <<ledVars, calcVars, gpioVars, flyVars, mainVars>>

(***************************************************************************)
(*                    gpio.c: the pins of port A                           *)
(***************************************************************************)
GPIO_PIN_MAX == 15

GPIOA == "GPIOA"

NoPort == "NULL"

GPIO_STATE_LOW == "LOW"

GPIO_STATE_HIGH == "HIGH"

MODE_INPUT == 0

MODE_OUTPUT == 1

Pins == 0 .. GPIO_PIN_MAX

\* A null pointer in place of a pin descriptor.
NullGpio == [null |-> TRUE]

\* A validation that does not look at the pin number.
GpioValidAnyPin(g) == g # NullGpio /\ g.port # NoPort

\* The validation every gpio_* entry point starts with.
GpioValid(g) == g # NullGpio /\ g.port # NoPort /\ g.pin <= GPIO_PIN_MAX

\* An output level that is written by inverting the pin's ODR bit.
configure_output_levelToggle(odr, g, cfg) ==
    IF g.pin \in odr THEN odr \ {g.pin} ELSE odr \cup {g.pin}

\* configure_output_level: BSRRL sets the pin's ODR bit, BSRRH resets it.
configure_output_level(odr, g, cfg) ==
    IF cfg = GPIO_STATE_HIGH THEN odr \cup {g.pin} ELSE odr \ {g.pin}

\* configure_mode: the pin's two MODER bits.
configure_mode(moder, g, cfg) == [moder EXCEPT ![g.pin] = cfg]

gpio_output_set(odr, g, state) ==
    IF GpioValid(g) THEN configure_output_level(odr, g, state) ELSE odr

\* gpio_cfg_output: push-pull output, driven low.
gpio_cfg_output_odr(odr, g) ==
    IF GpioValid(g) THEN configure_output_level(odr, g, GPIO_STATE_LOW) ELSE odr

gpio_cfg_output_moder(moder, g) ==
    IF GpioValid(g) THEN configure_mode(moder, g, MODE_OUTPUT) ELSE moder

(***************************************************************************)
(*           gpio.c: the functions on the whole register file              *)
(***************************************************************************)
PULL_RESISTOR_NONE == 0

OUTPUT_SPEED_LOW == 0

OUTPUT_SPEED_MEDIUM == 1

OUTPUT_SPEED_HIGH == 2

OUTPUT_TYPE_PUSH_PULL == 0

OUTPUT_TYPE_OPEN_DRAIN == 1

\* configure_pull_resistors: the pin's two PUPDR bits are cleared, then set.
configure_pull_resistors(pupdr, g, cfg) ==
    [pupdr EXCEPT ![g.pin] = IF cfg \in {1, 2} THEN cfg ELSE 0]

\* configure_output_speed: the pin's two OSPEEDR bits.
configure_output_speed(ospeedr, g, cfg) ==
    [ospeedr EXCEPT ![g.pin] =
        IF cfg = OUTPUT_SPEED_LOW THEN 0
        ELSE IF cfg = OUTPUT_SPEED_MEDIUM THEN 1
        ELSE 3]

\* configure_output_type: the pin's OTYPER bit.
configure_output_type(otyper, g, cfg) ==
    IF cfg = OUTPUT_TYPE_OPEN_DRAIN THEN otyper \cup {g.pin} ELSE otyper \ {g.pin}

\* enable_port: the clock enable bit of the descriptor's port.
enable_port(ahbenr, g) ==
    IF g.port \in {GPIOA, "GPIOB", "GPIOC", "GPIOD"} THEN ahbenr \cup {g.port}
    ELSE ahbenr

gpio_cfg_input(r, g) ==
    IF ~GpioValid(g) THEN r
    ELSE [r EXCEPT !.AHBENR = enable_port(@, g),
                   !.MODER = configure_mode(@, g, MODE_INPUT),
                   !.PUPDR = configure_pull_resistors(@, g, PULL_RESISTOR_NONE)]

gpio_cfg_output(r, g) ==
    IF ~GpioValid(g) THEN r
    ELSE [r EXCEPT !.AHBENR = enable_port(@, g),
                   !.PUPDR = configure_pull_resistors(@, g, PULL_RESISTOR_NONE),
                   !.OSPEEDR = configure_output_speed(@, g, OUTPUT_SPEED_HIGH),
                   !.ODR = gpio_cfg_output_odr(@, g),
                   !.OTYPER = configure_output_type(@, g, OUTPUT_TYPE_PUSH_PULL),
                   !.MODER = gpio_cfg_output_moder(@, g)]

\* gpio_input_read: the value returned, and whether port->IDR was read.
gpio_input_read(r, g) ==
    IF ~GpioValid(g) THEN [value |-> GPIO_STATE_LOW, read |-> FALSE]
    ELSE [value |-> IF g.pin \in r.IDR THEN GPIO_STATE_HIGH ELSE GPIO_STATE_LOW,
          read |-> TRUE]

\* The descriptors handed in: a null pointer, a null port, pins 0, 15 and 16.
GpioArgs == {NullGpio} \cup [port : {NoPort, GPIOA}, pin : {0, GPIO_PIN_MAX, GPIO_PIN_MAX + 1}]

\* A register with the same two bits for every pin, and one with the same bit.
Uniform2(v) == [pin \in Pins |-> v]

Uniform1(b) == IF b THEN Pins ELSE {}

\* The register states an operation starts from.
RegStates ==
    {[MODER |-> Uniform2(m), OTYPER |-> Uniform1(t), OSPEEDR |-> Uniform2(sp),
      PUPDR |-> Uniform2(pu), ODR |-> Uniform1(o), IDR |-> Uniform1(in),
      AHBENR |-> IF en THEN {GPIOA} ELSE {}] :
        m \in 0 .. 3, t \in BOOLEAN, sp \in 0 .. 3, pu \in 0 .. 3,
        o \in BOOLEAN, in \in BOOLEAN, en \in BOOLEAN}

NoRead == [value |-> GPIO_STATE_LOW, read |-> FALSE]

GpioCfgInput ==
    /\ regs' = gpio_cfg_input(regs, gpio)
    /\ gpio_fn' = "gpio_cfg_input"
    /\ gpio_before' = regs
    /\ gpio_ret' = NoRead
    /\ UNCHANGED <<gpio, gpio_state, schedVars, ledVars, calcVars, flyVars, mainVars, runVars>>

GpioCfgOutput ==
    /\ regs' = gpio_cfg_output(regs, gpio)
    /\ gpio_fn' = "gpio_cfg_output"
    /\ gpio_before' = regs
    /\ gpio_ret' = NoRead
    /\ UNCHANGED <<gpio, gpio_state, schedVars, ledVars, calcVars, flyVars, mainVars, runVars>>

GpioOutputSet ==
    /\ \E state \in {GPIO_STATE_LOW, GPIO_STATE_HIGH} :
        /\ regs' = [regs EXCEPT !.ODR = gpio_output_set(@, gpio, state)]
        /\ gpio_state' = state
    /\ gpio_fn' = "gpio_output_set"
    /\ gpio_before' = regs
    /\ gpio_ret' = NoRead
    /\ UNCHANGED <<gpio, schedVars, ledVars, calcVars, flyVars, mainVars, runVars>>

GpioInputRead ==
    /\ gpio_ret' = gpio_input_read(regs, gpio)
    /\ gpio_fn' = "gpio_input_read"
    /\ gpio_before' = regs
    /\ UNCHANGED <<gpio, regs, gpio_state, schedVars, ledVars, calcVars, flyVars, mainVars, runVars>>

\* The pins after reset, before any gpio_* call.
GpioReset ==
    /\ gpio = NullGpio
    /\ regs = [MODER |-> Uniform2(0), OTYPER |-> {}, OSPEEDR |-> Uniform2(0),
               PUPDR |-> Uniform2(0), ODR |-> {}, IDR |-> {}, AHBENR |-> {}]
    /\ gpio_fn = "none"
    /\ gpio_state = GPIO_STATE_LOW
    /\ gpio_before = regs
    /\ gpio_ret = NoRead

(***************************************************************************)
(*                    leds.c: the multiplexed DAC output                   *)
(***************************************************************************)
LED_COUNT == 8

Leds == 0 .. (LED_COUNT - 1)

ANALOG_SWITCH_SELECT_0 == 0

ANALOG_SWITCH_SELECT_2 == 2

ANALOG_SWITCH_NENABLE == 3

ANALOG_SWITCH_PIN_FIRST == ANALOG_SWITCH_SELECT_0

ANALOG_SWITCH_PIN_FINAL == ANALOG_SWITCH_NENABLE

analog_switch_io ==
    (0 :> [port |-> GPIOA, pin |-> 9])
        @@ (1 :> [port |-> GPIOA, pin |-> 10])
        @@ (2 :> [port |-> GPIOA, pin |-> 11])
        @@ (3 :> [port |-> GPIOA, pin |-> 12])

\* The task function pointer led_init registers.
led_periodic_callback == 1

\* Values handed to led_set_brightness, as the int32_t they are stored as: in
\* range, above 12 bits, and 0xFFFFFFFF.
Levels == {0, 150, 4097, -1}

\* Channels handed to led_set_brightness: two valid ones and LED_COUNT itself.
WriteChannels == {0, 5, LED_COUNT}

\* A converter write that does not mask the value.
dac_set_outputNoMask(dac_val) == dac_val

\* dac_set_output: the low 12 bits of the value.
dac_set_output(dac_val) == dac_val % 4096

\* dac_enable_output: nEnable low enables the switch, high disables it.
dac_enable_output(odr, enable) ==
    gpio_output_set(odr, analog_switch_io[ANALOG_SWITCH_NENABLE],
                    IF enable THEN GPIO_STATE_LOW ELSE GPIO_STATE_HIGH)

\* A select pass that tests the bit above the one of its line.
SelectStateNextBit(id, k) ==
    IF (id \div (2 ^ (k + 1 - ANALOG_SWITCH_SELECT_0))) % 2 = 1
    THEN GPIO_STATE_HIGH ELSE GPIO_STATE_LOW

\* dac_set_led, one pass of its loop: select line k carries bit k of led_id.
SelectState(id, k) ==
    IF (id \div (2 ^ (k - ANALOG_SWITCH_SELECT_0))) % 2 = 1
    THEN GPIO_STATE_HIGH ELSE GPIO_STATE_LOW

dac_set_led_pass(odr, id, k) ==
    gpio_output_set(odr, analog_switch_io[k], SelectState(id, k))

\* dac_init: the four switch pins become outputs, in order, and the DAC is set to 0.
RECURSIVE dac_init_odr(_, _)
dac_init_odr(odr, k) ==
    IF k > ANALOG_SWITCH_PIN_FINAL THEN odr
    ELSE dac_init_odr(gpio_cfg_output_odr(odr, analog_switch_io[k]), k + 1)

RECURSIVE dac_init_moder(_, _)
dac_init_moder(moder, k) ==
    IF k > ANALOG_SWITCH_PIN_FINAL THEN moder
    ELSE dac_init_moder(gpio_cfg_output_moder(moder, analog_switch_io[k]), k + 1)

\* Orders in which the DAC level is set after the select lines, or before the
\* switch is disabled.
UpdateOrderSelectFirst == <<"disable", "select", "level", "enable">>

UpdateOrderLevelFirst == <<"level", "disable", "select", "enable">>

\* The statements of led_update_brightness, in program order.
UpdateOrder == <<"disable", "level", "select", "enable">>

StepAfter(step) ==
    LET k == CHOOSE n \in DOMAIN UpdateOrder : UpdateOrder[n] = step
    IN  IF k < Len(UpdateOrder) THEN UpdateOrder[k + 1] ELSE "return"

\* An advance that skips a channel.
NextLedSkip(id) == (id + 2) % LED_COUNT

\* An advance that stays on the same channel.
NextLedStuck(id) == id

\* led_periodic_callback's advance of its static channel pointer.
NextLed(id) == (id + 1) % LED_COUNT

\* The analog switch: with nEnable low the selected output is low impedance.
NEnableHigh(odr) == analog_switch_io[ANALOG_SWITCH_NENABLE].pin \in odr

Selected(odr) ==
    (IF analog_switch_io[0].pin \in odr THEN 1 ELSE 0)
        + (IF analog_switch_io[1].pin \in odr THEN 2 ELSE 0)
        + (IF analog_switch_io[2].pin \in odr THEN 4 ELSE 0)

OpenChannels(odr) == IF NEnableHigh(odr) THEN {} ELSE {Selected(odr)}

Logged(fn, val) == [fn |-> fn, val |-> val]

led_init ==
    /\ ~led_ready
    /\ pc = "main"
    /\ GPIOA_ODR' = dac_init_odr(GPIOA_ODR, ANALOG_SWITCH_PIN_FIRST)
    /\ GPIOA_MODER' = dac_init_moder(GPIOA_MODER, ANALOG_SWITCH_PIN_FIRST)
    /\ DAC_DHR12R1' = dac_set_output(0)
    /\ s_led_brightness' = [led \in Leds |-> 0]
    /\ LET c == [op |-> "add", tsk |-> led_periodic_callback, prd |-> 1]
       IN  AfterCall(c) /\ last' = LastAfter(c, {})
    /\ led_ready' = TRUE
    /\ UNCHANGED <<counter, pc, i, fired, start, nticks>>
    /\ UNCHANGED <<led_id, lpc, sel, arg, dcalls, level_for, hist, pending, written>>
    /\ UNCHANGED <<calcVars, gpioVars, flyVars, mainVars, runVars>>

\* A store that wraps the channel index into the array.
StoreBrightnessWrapping(brightness, id, led_brightness) ==
    [brightness EXCEPT ![id % LED_COUNT] = led_brightness]

\* The guarded store of led_set_brightness.
StoreBrightness(brightness, id, led_brightness) ==
    IF id < LED_COUNT
    THEN [brightness EXCEPT ![id] = led_brightness]
    ELSE brightness

\* The bookkeeping of a call of led_set_brightness.
PendingAfterWrite(id) ==
    IF id < LED_COUNT THEN [pending EXCEPT ![id] = 0] ELSE pending

\* led_set_brightness, called between two invocations of the driver.
led_set_brightness ==
    /\ led_ready
    /\ lpc = "idle"
    /\ \E id \in WriteChannels, led_brightness \in Levels :
        /\ s_led_brightness' = StoreBrightness(s_led_brightness, id, led_brightness)
        /\ pending' = PendingAfterWrite(id)
        /\ written' = id
    /\ UNCHANGED <<led_ready, led_id, lpc, sel, arg, DAC_DHR12R1, GPIOA_MODER,
                   GPIOA_ODR, dcalls, level_for, hist>>
    /\ UNCHANGED <<schedVars, calcVars, gpioVars, flyVars, mainVars, runVars>>

\* The scheduler calls led_periodic_callback, which calls led_update_brightness.
LedCallbackEnter ==
    /\ led_ready
    /\ lpc = "idle"
    /\ arg' = [led_id |-> led_id, led_brightness |-> s_led_brightness[led_id]]
    /\ lpc' = UpdateOrder[1]
    /\ dcalls' = <<>>
    /\ hist' = IF Len(hist) < LED_COUNT THEN Append(hist, led_id)
               ELSE Append(Tail(hist), led_id)
    /\ pending' = [led \in Leds |->
                        IF pending[led] < 0 \/ pending[led] > LED_COUNT
                        THEN pending[led]
                        ELSE pending[led] + 1]
    /\ written' = -1
    /\ UNCHANGED <<led_ready, s_led_brightness, led_id, sel, DAC_DHR12R1,
                   GPIOA_MODER, GPIOA_ODR, level_for>>
    /\ UNCHANGED <<schedVars, calcVars, gpioVars, flyVars, mainVars, runVars>>

\* dac_enable_output( FALSE )
DacDisable ==
    /\ lpc = "disable"
    /\ GPIOA_ODR' = dac_enable_output(GPIOA_ODR, FALSE)
    /\ dcalls' = Append(dcalls, Logged("dac_enable_output", 0))
    /\ lpc' = StepAfter("disable")
    /\ UNCHANGED <<led_ready, s_led_brightness, led_id, sel, arg, DAC_DHR12R1,
                   GPIOA_MODER, level_for, hist, pending, written>>
    /\ UNCHANGED <<schedVars, calcVars, gpioVars, flyVars, mainVars, runVars>>

\* dac_set_output( led_brightness )
DacSetOutput ==
    /\ lpc = "level"
    /\ DAC_DHR12R1' = dac_set_output(arg.led_brightness)
    /\ level_for' = [level_for EXCEPT ![arg.led_id] = dac_set_output(arg.led_brightness)]
    /\ dcalls' = Append(dcalls, Logged("dac_set_output", arg.led_brightness))
    /\ lpc' = StepAfter("level")
    /\ UNCHANGED <<led_ready, s_led_brightness, led_id, sel, arg, GPIOA_MODER,
                   GPIOA_ODR, hist, pending, written>>
    /\ UNCHANGED <<schedVars, calcVars, gpioVars, flyVars, mainVars, runVars>>

\* dac_set_led( led_id ): one gpio_output_set per select line.
DacSetLed ==
    /\ lpc = "select"
    /\ GPIOA_ODR' = dac_set_led_pass(GPIOA_ODR, arg.led_id, sel)
    /\ dcalls' = IF sel = ANALOG_SWITCH_SELECT_0
                 THEN Append(dcalls, Logged("dac_set_led", arg.led_id))
                 ELSE dcalls
    /\ sel' = IF sel < ANALOG_SWITCH_SELECT_2 THEN sel + 1 ELSE ANALOG_SWITCH_SELECT_0
    /\ lpc' = IF sel < ANALOG_SWITCH_SELECT_2 THEN "select" ELSE StepAfter("select")
    /\ UNCHANGED <<led_ready, s_led_brightness, led_id, arg, DAC_DHR12R1,
                   GPIOA_MODER, level_for, hist, pending, written>>
    /\ UNCHANGED <<schedVars, calcVars, gpioVars, flyVars, mainVars, runVars>>

\* dac_enable_output( TRUE )
DacEnable ==
    /\ lpc = "enable"
    /\ GPIOA_ODR' = dac_enable_output(GPIOA_ODR, TRUE)
    /\ dcalls' = Append(dcalls, Logged("dac_enable_output", 1))
    /\ lpc' = StepAfter("enable")
    /\ UNCHANGED <<led_ready, s_led_brightness, led_id, sel, arg, DAC_DHR12R1,
                   GPIOA_MODER, level_for, hist, pending, written>>
    /\ UNCHANGED <<schedVars, calcVars, gpioVars, flyVars, mainVars, runVars>>

\* led_update_brightness returns; led_periodic_callback advances led_id and returns.
LedCallbackReturn ==
    /\ lpc = "return"
    /\ led_id' = NextLed(led_id)
    /\ lpc' = "idle"
    /\ pending' = [pending EXCEPT ![arg.led_id] = -1]
    /\ UNCHANGED <<led_ready, s_led_brightness, sel, arg, DAC_DHR12R1,
                   GPIOA_MODER, GPIOA_ODR, dcalls, level_for, hist, written>>
    /\ UNCHANGED <<schedVars, calcVars, gpioVars, flyVars, mainVars, runVars>>

\* Power-up: the pins are inputs, the output data register and the DAC are 0.
(***************************************************************************)
(*                 fireflies.c: the flash patterns                         *)
(***************************************************************************)
FLASH_COUNT == 6

FLASH_FIRST == 0

FLASH_LAST == 5

FIREFLY_FLASHPOINTS_MAX == 15

FIREFLY_SMOOTHING_MIN == 50

FIREFLY_SMOOTHING_MAX == 500

FlashIds == FLASH_FIRST .. FLASH_LAST

PointIndex == 0 .. (FIREFLY_FLASHPOINTS_MAX - 1)

\* A flash point; the rest of each row of flash_patterns is zero-initialised.
Point(target, time) == [target |-> target, time |-> time]

Row(points) ==
    [k \in PointIndex |-> IF k < Len(points) THEN points[k + 1] ELSE Point(0, 0)]

flash_patterns ==
    [id \in FlashIds |->
        CASE id = 0 -> Row(<<Point(800, 300), Point(1000, 100), Point(800, 200),
                             Point(0, 400)>>)
          [] id = 1 -> Row(<<Point(500, 100), Point(500, 800), Point(0, 100)>>)
          [] id = 2 -> Row(<<Point(1000, 100), Point(1, 100), Point(1, 100),
                             Point(1000, 100), Point(0, 100)>>)
          [] id = 3 -> Row(<<Point(1000, 200), Point(1, 100), Point(1, 200),
                             Point(300, 100), Point(1, 100), Point(300, 100),
                             Point(0, 100)>>)
          [] id = 4 -> Row(<<Point(500, 50), Point(500, 200), Point(0, 50)>>)
          [] id = 5 -> Row(<<Point(1000, 50), Point(1000, 200), Point(0, 50)>>)]

\* A division that rounds the quotient toward minus infinity.
c_divFloor(a, b) == a \div b

\* int32_t division: the quotient is truncated toward zero (divisor > 0).
c_div(a, b) == IF a >= 0 THEN a \div b ELSE -((-a) \div b)

min_val(val1, val2) == IF val1 < val2 THEN val1 ELSE val2

\* A loop condition that stops in front of the first point whose target is 0.
MorePointsBeforeZero(flash_pattern, k) == flash_pattern[k].target # 0

\* The loop condition shared by the three functions below.
MorePoints(flash_pattern, k) == k = 0 \/ flash_pattern[k - 1].target # 0

(***************************************************************************)
(* calculate_flash_length                                                  *)
(***************************************************************************)
RECURSIVE FlashLengthFrom(_, _, _)
FlashLengthFrom(flash_pattern, k, flash_length) ==
    IF MorePoints(flash_pattern, k)
    THEN FlashLengthFrom(flash_pattern, k + 1, flash_length + flash_pattern[k].time)
    ELSE flash_length

calculate_flash_length(flash_type) ==
    FlashLengthFrom(flash_patterns[flash_type], 0, 0)

(***************************************************************************)
(* calculate_brightness_unsmoothed                                         *)
(***************************************************************************)
\* An interpolation that starts every segment from 0.
InterpolateFromZero(cur, prv, flash_point_end_time, flash_time) ==
    IF cur.time # 0
    THEN c_div((cur.time - (flash_point_end_time - flash_time)) * cur.target,
               cur.time)
    ELSE 0

Interpolate(cur, prv, flash_point_end_time, flash_time) ==
    IF cur.time # 0
    THEN c_div((cur.time - (flash_point_end_time - flash_time))
                    * (cur.target - prv.target), cur.time) + prv.target
    ELSE 0

\* The search for the current point, then the interpolation.
RECURSIVE UnsmoothedFrom(_, _, _, _)
UnsmoothedFrom(flash_pattern, flash_time, k, end_time) ==
    IF ~MorePoints(flash_pattern, k)
    THEN Interpolate(Point(0, 0), Point(0, 0), end_time, flash_time)
    ELSE LET flash_point_end_time == end_time + flash_pattern[k].time
         IN  IF flash_time < flash_point_end_time
             THEN Interpolate(flash_pattern[k],
                              IF k # 0 THEN flash_pattern[k - 1] ELSE Point(0, 0),
                              flash_point_end_time, flash_time)
             ELSE UnsmoothedFrom(flash_pattern, flash_time, k + 1,
                                 flash_point_end_time)

\* The function without its input validation.
UnsmoothedNoValidate(flash_type, flash_time) ==
    UnsmoothedFrom(flash_patterns[flash_type], flash_time, 0, 0)

calculate_brightness_unsmoothed(flash_type, flash_time) ==
    IF flash_time < 0 THEN 0
    ELSE UnsmoothedFrom(flash_patterns[flash_type], flash_time, 0, 0)

(***************************************************************************)
(* calculate_brightness_smoothed                                           *)
(***************************************************************************)
\* No interval: the window starts at or after the end of the flash point.
NoInterval == -1

\* A choice of interval start that never skips a flash point.
IntervalStartNoSkip(smooth_start, flash_point_start_time, flash_point_end_time) ==
    IF smooth_start >= flash_point_start_time /\ smooth_start < flash_point_end_time
    THEN smooth_start
    ELSE flash_point_start_time

\* t1 of a flash point (flash point start times are never negative).
IntervalStart(smooth_start, flash_point_start_time, flash_point_end_time) ==
    IF smooth_start >= flash_point_start_time /\ smooth_start < flash_point_end_time
    THEN smooth_start
    ELSE IF smooth_start < flash_point_start_time
    THEN flash_point_start_time
    ELSE NoInterval

\* An interval end that is not clipped to the window.
IntervalEndUnclipped(flash_point_end_time, smooth_end) == flash_point_end_time

IntervalEnd(flash_point_end_time, smooth_end) ==
    min_val(flash_point_end_time, smooth_end)

\* The loop: the accumulated brightness and the intervals <<t1, t2>> it added.
RECURSIVE SmoothedFrom(_, _, _, _, _, _)
SmoothedFrom(flash_id, smooth_start, smooth_end, k, flash_point_start_time, acc) ==
    IF ~MorePoints(flash_patterns[flash_id], k) THEN acc
    ELSE
      LET flash_point_end_time ==
                flash_point_start_time + flash_patterns[flash_id][k].time
          t1 == IntervalStart(smooth_start, flash_point_start_time,
                              flash_point_end_time)
          t2 == IntervalEnd(flash_point_end_time, smooth_end)
          b1 == calculate_brightness_unsmoothed(flash_id, t1)
          b2 == calculate_brightness_unsmoothed(flash_id, t2)
          sum == [brightness |-> acc.brightness + (b2 + b1) * (t2 - t1),
                  intervals |-> Append(acc.intervals, <<t1, t2>>)]
      IN  IF t1 = NoInterval
          THEN SmoothedFrom(flash_id, smooth_start, smooth_end, k + 1,
                            flash_point_end_time, acc)
          ELSE IF t2 = smooth_end THEN sum
          ELSE SmoothedFrom(flash_id, smooth_start, smooth_end, k + 1, t2, sum)

\* The locals of calculate_brightness_smoothed when it returns.
SmoothedRun(flash_id, flash_time, smoothing) ==
    LET half_smooth == smoothing \div 2
        width == (half_smooth * 2) + 1
        smooth_start == flash_time - half_smooth
        smooth_end == smooth_start + width
        flash_length == calculate_flash_length(flash_id)
        none == [brightness |-> 0, intervals |-> <<>>]
    IN  IF smooth_end < 0 \/ smooth_start > flash_length
        THEN none
        ELSE LET acc == SmoothedFrom(flash_id, smooth_start, smooth_end, 0, 0, none)
             IN  [brightness |-> c_div(acc.brightness, 2 * width),
                  intervals |-> acc.intervals]

\* A smoothed brightness that is 0 as soon as the window passes the pattern's end.
calculate_brightness_smoothedInside(flash_id, flash_time, smoothing) ==
    IF flash_time - (smoothing \div 2) + ((smoothing \div 2) * 2) + 1
            > calculate_flash_length(flash_id)
    THEN 0
    ELSE SmoothedRun(flash_id, flash_time, smoothing).brightness

calculate_brightness_smoothed(flash_id, flash_time, smoothing) ==
    SmoothedRun(flash_id, flash_time, smoothing).brightness

(***************************************************************************)
(* The brightness functions applied to one set of parameters.              *)
(***************************************************************************)
FlashTimes == (-(MaxFlashTime \div 4)) .. MaxFlashTime

Smoothings == {FIREFLY_SMOOTHING_MIN, FIREFLY_SMOOTHING_MIN + 1,
               FIREFLY_SMOOTHING_MAX - 1, FIREFLY_SMOOTHING_MAX}

CalcInputs == [flash_id : FlashIds, flash_time : FlashTimes, smoothing : Smoothings]

CallFlashLength ==
    /\ calc_fn = "none"
    /\ calc_fn' = "calculate_flash_length"
    /\ calc_out' = calculate_flash_length(calc_in.flash_id)
    /\ UNCHANGED <<calc_in, gpioVars, schedVars, ledVars, flyVars, mainVars, runVars>>

CallUnsmoothed ==
    /\ calc_fn = "none"
    /\ calc_fn' = "calculate_brightness_unsmoothed"
    /\ calc_out' = calculate_brightness_unsmoothed(calc_in.flash_id, calc_in.flash_time)
    /\ UNCHANGED <<calc_in, gpioVars, schedVars, ledVars, flyVars, mainVars, runVars>>

CallSmoothed ==
    /\ calc_fn = "none"
    /\ calc_fn' = "calculate_brightness_smoothed"
    /\ calc_out' = calculate_brightness_smoothed(calc_in.flash_id, calc_in.flash_time,
                                                calc_in.smoothing)
    /\ UNCHANGED <<calc_in, gpioVars, schedVars, ledVars, flyVars, mainVars, runVars>>

CalcReset ==
    /\ calc_fn = "none"
    /\ calc_in = [flash_id |-> FLASH_FIRST, flash_time |-> 0,
                  smoothing |-> FIREFLY_SMOOTHING_MIN]
    /\ calc_out = 0

(***************************************************************************)
(*                 fireflies.c: the animation engine                       *)
(***************************************************************************)
FIREFLY_TIMESTEP == LED_COUNT

FIREFLY_DELAY_MAX == 12000

FIREFLY_DELAY_MIN == 1000

firefly_periodic_callback == 2

Flies == 0 .. (NUMBER_OF_FIREFLIES - 1)

\* Values rand() returns where the flash, the smoothing and the delay are
\* drawn: every pattern, both ends of the smoothing range (even and odd), a
\* delay at each end of its range and one that is no multiple of the time step.
RandFlash == {0, 1, 2, 3, 4, 11}

RandSmoothing == {0, 1, 449, 901}

RandDelay == {0, 11002, 11000}

\* A range macro that forgets to add the minimum.
rand_rangeNoOffset(r, min, max) == r % (max - min + 1)

\* rand_range( min, max ) with r the value of rand().
rand_range(r, min, max) == (r % (max - min + 1)) + min

\* A step that ends the flash as soon as the brightness reads 0.
firefly_stepNoGuard(firefly, time_step) ==
    LET flash_time == firefly.flash_time + time_step
        brightness == calculate_brightness_smoothed(firefly.flash_id, flash_time,
                                                    firefly.smoothing)
    IN  [firefly EXCEPT !.flash_time = flash_time,
                        !.brightness = brightness,
                        !.flashing = IF brightness = 0 THEN FALSE ELSE @]

\* A step that ends the flash on the time alone, whatever the brightness.
firefly_stepTimeOnly(firefly, time_step) ==
    LET flash_time == firefly.flash_time + time_step
        brightness == calculate_brightness_smoothed(firefly.flash_id, flash_time,
                                                    firefly.smoothing)
    IN  [firefly EXCEPT !.flash_time = flash_time,
                        !.brightness = brightness,
                        !.flashing = IF firefly.smoothing < flash_time
                                     THEN FALSE ELSE @]

\* A step that waits for twice the smoothing time before it ends the flash.
firefly_stepLateGuard(firefly, time_step) ==
    LET flash_time == firefly.flash_time + time_step
        brightness == calculate_brightness_smoothed(firefly.flash_id, flash_time,
                                                    firefly.smoothing)
    IN  [firefly EXCEPT !.flash_time = flash_time,
                        !.brightness = brightness,
                        !.flashing = IF brightness = 0
                                            /\ 2 * firefly.smoothing < flash_time
                                     THEN FALSE ELSE @]

firefly_step(firefly, time_step) ==
    LET flash_time == firefly.flash_time + time_step
        brightness == calculate_brightness_smoothed(firefly.flash_id, flash_time,
                                                    firefly.smoothing)
    IN  [firefly EXCEPT !.flash_time = flash_time,
                        !.brightness = brightness,
                        !.flashing = IF brightness = 0 /\ firefly.smoothing < flash_time
                                     THEN FALSE ELSE @]

\* The static array before firefly_init.
ZeroFirefly ==
    [brightness |-> 0, flashing |-> FALSE, flash_id |-> 0, flash_time |-> 0,
     smoothing |-> 0, delay_len |-> 0, delay_time |-> 0]

\* firefly_init, with the values rand() returns for the delays taken from delays.
firefly_initDrawing(delays) ==
    /\ ~fly_ready
    /\ pc = "main"
    /\ \E r \in [Flies -> delays] :
        s_fireflies' =
            [f \in Flies |->
                [brightness |-> 0,
                 delay_len |-> rand_range(r[f], FIREFLY_DELAY_MIN, FIREFLY_DELAY_MAX),
                 delay_time |-> 0,
                 flash_id |-> FLASH_FIRST,
                 flash_time |-> 0,
                 flashing |-> FALSE,
                 smoothing |-> FIREFLY_SMOOTHING_MIN]]
    /\ LET c == [op |-> "add", tsk |-> firefly_periodic_callback,
                 prd |-> FIREFLY_TIMESTEP]
       IN  AfterCall(c) /\ last' = LastAfter(c, {})
    /\ fly_ready' = TRUE
    /\ waits' = [f \in Flies |-> 0]
    /\ UNCHANGED <<counter, pc, i, fired, start, nticks>>
    /\ UNCHANGED <<fpc, fly_i, ledVars, calcVars, gpioVars, mainVars, runVars>>

firefly_init == firefly_initDrawing(RandDelay)

\* The scheduler calls firefly_periodic_callback.
FlyCallbackEnter ==
    /\ fly_ready
    /\ fpc = "idle"
    /\ fpc' = "loop"
    /\ fly_i' = 0
    /\ UNCHANGED <<fly_ready, s_fireflies, waits, schedVars, ledVars, calcVars, gpioVars, mainVars, runVars>>

FlyLoopNext ==
    /\ fly_i' = IF fly_i + 1 < NUMBER_OF_FIREFLIES THEN fly_i + 1 ELSE 0
    /\ fpc' = IF fly_i + 1 < NUMBER_OF_FIREFLIES THEN "loop" ELSE "idle"

\* An engine that hands the driver the brightness in thousandths, unscaled.
LedBrightnessUnscaled(brightness) == brightness

\* The value the engine hands to led_set_brightness: brightness * 150 / 1000.
LedBrightness(brightness) == c_div(brightness * 150, 1000)

\* Loop body, firefly flashing: firefly_step, then led_set_brightness.
FireflyFlash ==
    /\ fpc = "loop"
    /\ s_fireflies[fly_i].flashing
    /\ LET firefly == firefly_step(s_fireflies[fly_i], FIREFLY_TIMESTEP)
       IN  /\ s_fireflies' = [s_fireflies EXCEPT ![fly_i] = firefly]
           /\ s_led_brightness' =
                StoreBrightness(s_led_brightness, fly_i,
                                LedBrightness(firefly.brightness))
    /\ pending' = PendingAfterWrite(fly_i)
    /\ written' = fly_i
    /\ waits' = [waits EXCEPT ![fly_i] = 0]
    /\ FlyLoopNext
    /\ UNCHANGED <<led_ready, led_id, lpc, sel, arg, DAC_DHR12R1, GPIOA_MODER,
                   GPIOA_ODR, dcalls, level_for, hist>>
    /\ UNCHANGED <<fly_ready, schedVars, calcVars, gpioVars, mainVars, runVars>>

\* A test that lets the delay counter pass delay_len before the flash starts.
DelayOverStrict(firefly) == firefly.delay_len < firefly.delay_time

\* The test of the second branch of the loop body.
DelayOver(firefly) == firefly.delay_len <= firefly.delay_time

\* Loop body, delay over: a new flash and the delay that will follow it, with
\* the value rand() returns for the delay taken from delays.
FireflyStartDrawing(delays) ==
    /\ fpc = "loop"
    /\ ~s_fireflies[fly_i].flashing
    /\ DelayOver(s_fireflies[fly_i])
    /\ waits' = [waits EXCEPT ![fly_i] = @ + 1]
    /\ \E r1 \in RandFlash, r2 \in RandSmoothing, r3 \in delays :
        LET smoothing == rand_range(r2, FIREFLY_SMOOTHING_MIN, FIREFLY_SMOOTHING_MAX)
        IN  s_fireflies' = [s_fireflies EXCEPT ![fly_i] =
                [@ EXCEPT !.flash_id = rand_range(r1, FLASH_FIRST, FLASH_LAST),
                          !.smoothing = smoothing,
                          !.flash_time = -c_div(smoothing, 2),
                          !.flashing = TRUE,
                          !.delay_len = rand_range(r3, FIREFLY_DELAY_MIN,
                                                   FIREFLY_DELAY_MAX),
                          !.delay_time = 0]]
    /\ FlyLoopNext
    /\ UNCHANGED <<fly_ready, schedVars, ledVars, calcVars, gpioVars, mainVars, runVars>>

FireflyStart == FireflyStartDrawing(RandDelay)

\* The same step in a run where rand() keeps the delays at their minimum.
ShortDelay == {0}

FireflyStartSoon == FireflyStartDrawing(ShortDelay)

\* Loop body, still waiting: the delay counter advances.
FireflyWait ==
    /\ fpc = "loop"
    /\ ~s_fireflies[fly_i].flashing
    /\ ~DelayOver(s_fireflies[fly_i])
    /\ waits' = [waits EXCEPT ![fly_i] = @ + 1]
    /\ s_fireflies' = [s_fireflies EXCEPT
                        ![fly_i].delay_time = @ + FIREFLY_TIMESTEP]
    /\ FlyLoopNext
    /\ UNCHANGED <<fly_ready, schedVars, ledVars, calcVars, gpioVars, mainVars, runVars>>

(***************************************************************************)
(*                     main.c: the idle timeout                            *)
(***************************************************************************)
\* s_timeout_counter is a uint32_t: it wraps at 2^TimeoutBits here.
TimeoutMod == 2 ^ TimeoutBits

\* The ghost count of inactive readings stops one wraparound above the timeout.
IdleRunMax == TimeoutMod + TIMEOUT_MS

hold_power_io == [port |-> GPIOA, pin |-> 1]

\* The task function pointer main registers.
main_timeout_callback == 3

\* touch_state_type, the values touch_read returns.
TOUCH_STATE_INACTIVE == 0

TOUCH_STATE_ACTIVE == 1

TouchStates == {TOUCH_STATE_INACTIVE, TOUCH_STATE_ACTIVE}

\* main_timeout_callback, first statement: the new value of s_timeout_counter.
TimeoutCount(cnt, reading) ==
    IF reading = TOUCH_STATE_ACTIVE THEN 0 ELSE (cnt + 1) % TimeoutMod

\* main_timeout_callback, second statement: the test for shutting down.
TimedOut(cnt) == cnt >= TIMEOUT_MS

\* main, first statements: the hold-power pin becomes an output and is driven high.
MainHoldPower ==
    /\ ~power_held
    /\ pc = "main"
    /\ GPIOA_MODER' = gpio_cfg_output_moder(GPIOA_MODER, hold_power_io)
    /\ GPIOA_ODR' = gpio_output_set(gpio_cfg_output_odr(GPIOA_ODR, hold_power_io),
                                    hold_power_io, GPIO_STATE_HIGH)
    /\ power_held' = TRUE
    /\ UNCHANGED <<timeout_ready, s_timeout_counter, touch, idle_run, drove>>
    /\ UNCHANGED <<led_ready, s_led_brightness, led_id, lpc, sel, arg, DAC_DHR12R1,
                   dcalls, level_for, hist, pending, written>>
    /\ UNCHANGED <<schedVars, calcVars, gpioVars, flyVars, runVars>>

\* main, last statements before its loop: the counter is cleared and the
\* callback registered with period 1.
MainStartTimeout ==
    /\ power_held
    /\ ~timeout_ready
    /\ pc = "main"
    /\ s_timeout_counter' = 0
    /\ LET c == [op |-> "add", tsk |-> main_timeout_callback, prd |-> 1]
       IN  AfterCall(c) /\ last' = LastAfter(c, {})
    /\ timeout_ready' = TRUE
    /\ UNCHANGED <<counter, pc, i, fired, start, nticks>>
    /\ UNCHANGED <<power_held, touch, idle_run, drove>>
    /\ UNCHANGED <<ledVars, calcVars, gpioVars, flyVars, runVars>>

\* The body of main_timeout_callback, touch_read returning one of readings.
TimeoutRuns(readings) ==
    /\ \E reading \in readings :
        LET cnt == TimeoutCount(s_timeout_counter, reading)
        IN  /\ s_timeout_counter' = cnt
            /\ touch' = reading
            /\ idle_run' = IF reading = TOUCH_STATE_ACTIVE THEN 0
                           ELSE IF idle_run < IdleRunMax THEN idle_run + 1
                           ELSE idle_run
            /\ IF TimedOut(cnt)
               THEN /\ GPIOA_ODR' = gpio_output_set(GPIOA_ODR, hold_power_io,
                                                    GPIO_STATE_LOW)
                    /\ drove' = "low"
               ELSE /\ GPIOA_ODR' = GPIOA_ODR
                    /\ drove' = "none"
    /\ UNCHANGED <<power_held, timeout_ready>>

\* The scheduler calls main_timeout_callback.
TimeoutCallback ==
    /\ timeout_ready
    /\ TimeoutRuns(TouchStates)
    /\ UNCHANGED <<led_ready, s_led_brightness, led_id, lpc, sel, arg, DAC_DHR12R1,
                   GPIOA_MODER, dcalls, level_for, hist, pending, written>>
    /\ UNCHANGED <<schedVars, calcVars, gpioVars, flyVars, runVars>>

\* Power-up, before main runs.
MainReset ==
    /\ power_held = FALSE
    /\ timeout_ready = FALSE
    /\ s_timeout_counter = 0
    /\ touch = TOUCH_STATE_INACTIVE
    /\ idle_run = 0
    /\ drove = "none"

(***************************************************************************)
(*        main.c: the three callbacks called from the tick handler         *)
(***************************************************************************)
\* dac_set_led: the select lines are driven in order, from line k on.
RECURSIVE dac_set_led(_, _, _)
dac_set_led(odr, id, k) ==
    IF k > ANALOG_SWITCH_SELECT_2 THEN odr
    ELSE dac_set_led(dac_set_led_pass(odr, id, k), id, k + 1)

\* led_update_brightness as it leaves the output data register.
led_update_brightness(odr, id) ==
    dac_enable_output(
        dac_set_led(dac_enable_output(odr, FALSE), id, ANALOG_SWITCH_SELECT_0),
        TRUE)

\* One whole invocation of led_periodic_callback.
DriverRuns ==
    /\ arg' = [led_id |-> led_id, led_brightness |-> s_led_brightness[led_id]]
    /\ DAC_DHR12R1' = dac_set_output(s_led_brightness[led_id])
    /\ GPIOA_ODR' = led_update_brightness(GPIOA_ODR, led_id)
    /\ level_for' = [level_for EXCEPT ![led_id] = dac_set_output(s_led_brightness[led_id])]
    /\ dcalls' = << Logged("dac_enable_output", 0),
                    Logged("dac_set_output", s_led_brightness[led_id]),
                    Logged("dac_set_led", led_id),
                    Logged("dac_enable_output", 1) >>
    /\ hist' = IF Len(hist) < LED_COUNT THEN Append(hist, led_id)
               ELSE Append(Tail(hist), led_id)
    /\ pending' = [led \in Leds |->
                        IF led = led_id THEN -1
                        ELSE IF pending[led] < 0 \/ pending[led] > LED_COUNT
                        THEN pending[led]
                        ELSE pending[led] + 1]
    /\ written' = -1
    /\ led_id' = NextLed(led_id)
    /\ shown' = [shown EXCEPT ![led_id] = IF @ >= 0 /\ @ <= LED_COUNT THEN @ + 1 ELSE @]
    /\ wrote_at' = [wrote_at EXCEPT ![led_id] = -1]
    /\ UNCHANGED <<led_ready, s_led_brightness, lpc, sel, GPIOA_MODER>>

\* The values rand() returns to one pass of the engine's loop.
EngineDraws(flashes, smoothings, delays) ==
    [flash : flashes, smoothing : smoothings, delay : delays]

\* The loop body of firefly_periodic_callback for one firefly.
firefly_body(firefly, r) ==
    IF firefly.flashing THEN firefly_step(firefly, FIREFLY_TIMESTEP)
    ELSE IF DelayOver(firefly)
    THEN LET smoothing == rand_range(r.smoothing, FIREFLY_SMOOTHING_MIN,
                                     FIREFLY_SMOOTHING_MAX)
         IN  [firefly EXCEPT !.flash_id = rand_range(r.flash, FLASH_FIRST, FLASH_LAST),
                             !.smoothing = smoothing,
                             !.flash_time = -c_div(smoothing, 2),
                             !.flashing = TRUE,
                             !.delay_len = rand_range(r.delay, FIREFLY_DELAY_MIN,
                                                      FIREFLY_DELAY_MAX),
                             !.delay_time = 0]
    ELSE [firefly EXCEPT !.delay_time = @ + FIREFLY_TIMESTEP]

\* The calls of led_set_brightness of one invocation, from firefly f on: one
\* for each firefly the invocation found flashing.
RECURSIVE EngineStores(_, _, _, _)
EngineStores(brightness, before, after, f) ==
    IF f >= NUMBER_OF_FIREFLIES THEN brightness
    ELSE EngineStores(IF before[f].flashing
                      THEN StoreBrightness(brightness, f,
                                           LedBrightness(after[f].brightness))
                      ELSE brightness,
                      before, after, f + 1)

\* One whole invocation of firefly_periodic_callback.
EngineRuns(flashes, smoothings, delays) ==
    /\ \E r \in [Flies -> EngineDraws(flashes, smoothings, delays)] :
        LET after == [f \in Flies |-> firefly_body(s_fireflies[f], r[f])]
        IN  /\ s_fireflies' = after
            /\ s_led_brightness' = EngineStores(s_led_brightness, s_fireflies, after, 0)
    /\ LET lit == {f \in Flies : s_fireflies[f].flashing}
       IN  /\ waits' = [f \in Flies |-> IF f \in lit THEN 0 ELSE waits[f] + 1]
           /\ pending' = [led \in Leds |-> IF led \in lit THEN 0 ELSE pending[led]]
           /\ written' = IF lit = {} THEN written
                         ELSE CHOOSE f \in lit : \A g \in lit : g <= f
           /\ shown' = [led \in Leds |-> IF led \in lit THEN 0 ELSE -1]
           /\ wrote_at' = [led \in Leds |-> IF led \in lit THEN counter
                                            ELSE wrote_at[led]]
    /\ UNCHANGED <<fly_ready, fpc, fly_i>>

\* execute_tasks finds slot i due and holding tsk, and calls it.
Called(tsk) ==
    /\ pc = "tick"
    /\ s_task_list[i].task = tsk
    /\ \E r \in Remainders(Dividend(counter, i), s_task_list[i].period) :
        Elapsed(r, s_task_list[i].task)
    /\ fired' = Append(fired, [slot |-> i, task |-> tsk])
    /\ LoopNext
    /\ AfterCall(None)
    /\ last' = LastAfter(None, {i})
    /\ UNCHANGED <<counter, start, nticks>>

RunDriver ==
    /\ Called(led_periodic_callback)
    /\ DriverRuns
    /\ UNCHANGED <<calcVars, gpioVars, flyVars, mainVars, mpc, mreq, want>>

\* Values rand() returns in a run of the whole program: the third and the
\* fifth pattern, the narrowest smoothing window.
MainFlash == {2, 4}

MainSmoothing == {0}

\* The engine, with rand() keeping the delays at their minimum.
RunEngine ==
    /\ Called(firefly_periodic_callback)
    /\ EngineRuns(MainFlash, MainSmoothing, ShortDelay)
    /\ UNCHANGED <<led_ready, led_id, lpc, sel, arg, DAC_DHR12R1, GPIOA_MODER,
                   GPIOA_ODR, dcalls, level_for, hist>>
    /\ UNCHANGED <<calcVars, gpioVars, mainVars, mpc, mreq, want>>

\* The timeout callback, with a jar that is being touched all the time.
RunTimeout ==
    /\ Called(main_timeout_callback)
    /\ TimeoutRuns({TOUCH_STATE_ACTIVE})
    /\ UNCHANGED <<led_ready, s_led_brightness, led_id, lpc, sel, arg, DAC_DHR12R1,
                   GPIOA_MODER, dcalls, level_for, hist, pending, written>>
    /\ UNCHANGED <<calcVars, gpioVars, flyVars, runVars>>

\* main calls led_init, firefly_init and system_add_task in this order.
MainLedInit == power_held /\ led_init

MainFireflyInit == led_ready /\ firefly_initDrawing(ShortDelay)

MainTimeout == fly_ready /\ MainStartTimeout

\* SysTick runs from system_init on, which main calls after it took hold of
\* the power.
MainTick == power_held /\ SysTick_Handler

RunReset ==
    /\ mpc = "idle"
    /\ mreq = [idx |-> 0, tsk |-> NULL, prd |-> 0]
    /\ want = [idx \in Slots |-> 0]
    /\ shown = [led \in Leds |-> -1]
    /\ wrote_at = [led \in Leds |-> -1]

FlyReset ==
    /\ fly_ready = FALSE
    /\ s_fireflies = [f \in Flies |-> ZeroFirefly]
    /\ fpc = "idle"
    /\ fly_i = 0
    /\ waits = [f \in Flies |-> 0]

LedReset ==
    /\ led_ready = FALSE
    /\ s_led_brightness = [led \in Leds |-> 0]
    /\ led_id = 0
    /\ lpc = "idle"
    /\ sel = ANALOG_SWITCH_SELECT_0
    /\ arg = [led_id |-> 0, led_brightness |-> 0]
    /\ DAC_DHR12R1 = 0
    /\ GPIOA_MODER = [pin \in Pins |-> MODE_INPUT]
    /\ GPIOA_ODR = {}
    /\ dcalls = <<>>
    /\ level_for = [led \in Leds |-> 0]
    /\ hist = <<>>
    /\ pending = [led \in Leds |-> -1]
    /\ written = -1

SchedInit ==
    /\ s_task_list = [idx \in Slots |-> EmptySlot]
    /\ counter = 0
    /\ pc = "main"
    /\ i = 0
    /\ ncalls = 0
    /\ call = None
    /\ fired = <<>>
    /\ start = [idx \in Slots |-> EmptySlot]
    /\ nticks = 0
    /\ last = [idx \in Slots |-> -1]

vars == <<schedVars, ledVars, calcVars, flyVars, gpioVars, mainVars, runVars>>

Init == SchedInit /\ LedReset /\ CalcReset /\ FlyReset /\ GpioReset /\ MainReset /\ RunReset

\* The timer events of a run of Spec.
Tick == nticks < MaxTicks /\ SysTick_Handler

Next ==
    \/ MainAddTask
    \/ MainRemoveTask
    \/ Tick
    \/ SkipTask
    \/ RunTask
    \/ RunTaskCalling
    \/ DivideByZeroTrap
    \/ HandlerReturn

Spec == Init /\ [][Next]_vars

\* main registers (and may remove) tasks before the first timer event.
StartupAddTask == nticks = 0 /\ MainAddTask

StartupRemoveTask == nticks = 0 /\ MainRemoveTask

PreemptNext ==
    \/ AddWriteTask
    \/ AddWritePeriod
    \/ RemoveClearTask
    \/ RemoveClearPeriod
    \/ Tick
    \/ SkipTask
    \/ RunTask
    \/ DivideByZeroTrap
    \/ HandlerReturn

SpecPreempt == Init /\ [][PreemptNext]_vars

MainNext ==
    \/ MainHoldPower
    \/ MainLedInit
    \/ MainFireflyInit
    \/ MainTimeout
    \/ MainTick
    \/ SkipTask
    \/ RunDriver
    \/ RunEngine
    \/ RunTimeout
    \/ DivideByZeroTrap
    \/ HandlerReturn

SpecMain == Init /\ [][MainNext]_vars

SteadyNext ==
    \/ StartupAddTask
    \/ StartupRemoveTask
    \/ SysTick_Handler
    \/ SkipTask
    \/ RunTask
    \/ DivideByZeroTrap
    \/ HandlerReturn

SpecSteady == Init /\ [][SteadyNext]_vars

LedNext ==
    \/ led_init
    \/ led_set_brightness
    \/ LedCallbackEnter
    \/ DacDisable
    \/ DacSetOutput
    \/ DacSetLed
    \/ DacEnable
    \/ LedCallbackReturn

SpecLed == Init /\ [][LedNext]_vars

\* The gpio_* functions applied to one descriptor, from any register state.
GpioInit ==
    /\ SchedInit /\ LedReset /\ CalcReset /\ FlyReset /\ MainReset /\ RunReset
    /\ gpio \in GpioArgs
    /\ regs \in RegStates
    /\ gpio_fn = "none"
    /\ gpio_state = GPIO_STATE_LOW
    /\ gpio_before = regs
    /\ gpio_ret = NoRead

GpioNext ==
    \/ GpioCfgInput
    \/ GpioCfgOutput
    \/ GpioOutputSet
    \/ GpioInputRead

SpecGpio == GpioInit /\ [][GpioNext]_vars

TimeoutNext ==
    \/ MainHoldPower
    \/ MainStartTimeout
    \/ TimeoutCallback

SpecTimeout == Init /\ [][TimeoutNext]_vars

BrightInit ==
    /\ SchedInit
    /\ LedReset
    /\ calc_fn = "none"
    /\ calc_in \in CalcInputs
    /\ calc_out = 0
    /\ FlyReset
    /\ GpioReset
    /\ MainReset
    /\ RunReset

BrightNext ==
    \/ CallFlashLength
    \/ CallUnsmoothed
    \/ CallSmoothed

SpecBright == BrightInit /\ [][BrightNext]_vars

FlyNext ==
    \/ firefly_init
    \/ FlyCallbackEnter
    \/ FireflyFlash
    \/ FireflyStart
    \/ FireflyWait

SpecFly == Init /\ [][FlyNext]_vars

\* The engine in runs with short delays between the flashes; the scheduler
\* keeps calling it, since SysTick never stops.
FlashNext ==
    \/ firefly_init
    \/ FlyCallbackEnter
    \/ FireflyFlash
    \/ FireflyStartSoon
    \/ FireflyWait

\* Inside the loop of firefly_periodic_callback the next pass of the body runs.
LoopBodyRuns == fpc = "loop" /\ FlyLoopNext

SpecFlyFair ==
    /\ Init /\ [][FlashNext]_vars
    /\ WF_vars(FlyCallbackEnter)
    /\ WF_<<fpc, fly_i>>(LoopBodyRuns)


(***************************************************************************)
(*                         Scheduler properties                            *)
(***************************************************************************)

\* Slot idx is occupied and its period has elapsed at the current counter value.
DueIn(list, idx) ==
    /\ list[idx].task # NULL
    /\ list[idx].period >= 1
    /\ Dividend(counter, idx) % list[idx].period = 0

Invocation(list, idx) == [slot |-> idx, task |-> list[idx].task]

FiredSet == {fired[k] : k \in DOMAIN fired}

FiredSlots == {fired[k].slot : k \in DOMAIN fired}

\* The step is a call of system_add_task / system_remove_task.
IsCall == ncalls' = ncalls + 1

\* C1: on every tick execute_tasks examines every slot, and calls the task of
\* slot i exactly once if the slot is occupied and (counter + i) mod period = 0,
\* and not otherwise; an unoccupied slot calls nothing.
C1_EverySlotFiresIffDue ==
    [][pc = "tick" =>
        /\ pc' # "fault"
        /\ fired' = IF DueIn(s_task_list, i)
                    THEN Append(fired, Invocation(s_task_list, i))
                    ELSE fired]_vars

\* C5: a task occupies at most one slot, and system_add_task of a task that is
\* already registered leaves the table unchanged.
C5_AtMostOneSlot ==
    \A a, b \in Slots :
        (a # b /\ s_task_list[a].task # NULL)
            => s_task_list[a].task # s_task_list[b].task

C5_ReAddIsNoOp ==
    [][/\ (IsCall /\ call'.op = "add"
            /\ \E idx \in Slots : s_task_list[idx].task = call'.tsk)
                => s_task_list' = s_task_list
       /\ C5_AtMostOneSlot']_vars

\* C6: every slot execute_tasks examines has a period of at least 1, so the
\* modulo never divides by zero.
C6_DivisorAtLeastOne == pc = "tick" => s_task_list[i].period >= 1

\* C7: a task that stays registered in slot i with period P fires exactly P
\* ticks after it last fired, across the wraparound of the counter as well.
C7_ExactlyPeriodApart ==
    [][(pc = "tick" /\ fired' # fired /\ last[i] >= 0)
            => last[i] = s_task_list[i].period]_vars

\* C8: the tasks a tick calls are those due in the table as it stood when the
\* tick began; a call made from inside a task shows only at the next tick.
C8_TickUsesStartTable ==
    pc = "ret" =>
        /\ FiredSet = {Invocation(start, idx) : idx \in {s \in Slots : DueIn(start, s)}}
        /\ Len(fired) = Cardinality({s \in Slots : DueIn(start, s)})

\* Slots 0 and 1 hold tasks of period 5 (registered, as every task of
\* SpecSteady, before the first timer event); the current tick is one of the
\* first ten and has examined both slots.
C9_Setup ==
    /\ s_task_list[0].task # NULL /\ s_task_list[0].period = 5
    /\ s_task_list[1].task # NULL /\ s_task_list[1].period = 5
    /\ nticks \in 1 .. 10
    /\ \/ pc = "ret"
       \/ pc \in {"tick", "fault"} /\ i >= 2

\* Ticks are numbered from 0 at the first timer event; the counter is
\* incremented before the slots are examined.
TickNo == nticks - 1

\* C9 as stated: slot 0 fires exactly at ticks {0,5}, slot 1 at ticks {4,9}.
C9_PhaseAsStated ==
    C9_Setup =>
        /\ (0 \in FiredSlots) <=> (TickNo \in {0, 5})
        /\ (1 \in FiredSlots) <=> (TickNo \in {4, 9})

\* C9 amended: slot 0 fires exactly at ticks {4,9}, slot 1 at ticks {3,8}.
C9_Phase ==
    C9_Setup =>
        /\ (0 \in FiredSlots) <=> (TickNo \in {4, 9})
        /\ (1 \in FiredSlots) <=> (TickNo \in {3, 8})

C9_Witness ==
    /\ C9_Setup
    /\ pc = "ret"
    /\ TickNo = 9
    /\ FiredSlots = {0}

\* Every slot is occupied by a task other than tsk.
FullOfOthers(list, tsk) == \A idx \in Slots : list[idx].task \notin {NULL, tsk}

\* C10: system_add_task of a new task on a full table changes no slot, and a
\* task that no slot holds is never called.
C10_FullTableUnchanged ==
    [][/\ (IsCall /\ call'.op = "add" /\ FullOfOthers(s_task_list, call'.tsk))
            => s_task_list' = s_task_list
       /\ (pc = "tick" /\ fired' # fired)
            => \E idx \in Slots :
                    s_task_list[idx].task = fired'[Len(fired')].task]_vars

C10_Witness ==
    /\ call.op = "add"
    /\ FullOfOthers(s_task_list, call.tsk)

\* The table with no registration.
EmptyTable == [idx \in Slots |-> EmptySlot]

\* C11: system_add_task on a table full of other tasks reports the rejection:
\* what it returns differs from what a registration that succeeds returns.
C11_RejectionReported ==
    [][(IsCall /\ call'.op = "add" /\ FullOfOthers(s_task_list, call'.tsk))
            => AddResult(s_task_list, call'.tsk, call'.prd)
                    # AddResult(EmptyTable, call'.tsk, call'.prd)]_vars

Holds(list, tsk) == {idx \in Slots : list[idx].task = tsk}

Free(list) == {idx \in Slots : list[idx].task = NULL}

LowestFree(list) == CHOOSE idx \in Free(list) : \A j \in Free(list) : idx <= j

\* C12: after system_remove_task(cb) no slot holds cb and every slot it held is
\* empty; a task is called only while a slot holds it; a later registration
\* goes to the lowest free slot, a freed one included.
C12_RemoveFreesSlots ==
    [][/\ (IsCall /\ call'.op = "remove")
            => /\ Holds(s_task_list', call'.tsk) = {}
               /\ \A idx \in Holds(s_task_list, call'.tsk) :
                        s_task_list'[idx] = EmptySlot
       /\ (pc = "tick" /\ fired' # fired)
            => Holds(s_task_list, fired'[Len(fired')].task) # {}
       /\ (IsCall /\ call'.op = "add" /\ s_task_list' # s_task_list)
            => s_task_list'[LowestFree(s_task_list)].task = call'.tsk]_vars

\* add A, add B, remove A: slot 0 has been freed under an occupied slot 1.
C12_Witness ==
    /\ ncalls = 3
    /\ call.op = "remove"
    /\ s_task_list[0] = EmptySlot
    /\ s_task_list[1].task # NULL

\* C13: system_add_task of a task no slot holds, on a table with a free slot,
\* writes the task and max(prd, 1) to the lowest free slot and nothing else.
C13_LowestFreeSlot ==
    [][(IsCall /\ call'.op = "add"
            /\ Holds(s_task_list, call'.tsk) = {} /\ Free(s_task_list) # {})
        => s_task_list' =
            [s_task_list EXCEPT ![LowestFree(s_task_list)] =
                [task |-> call'.tsk,
                 period |-> IF call'.prd > 1 THEN call'.prd ELSE 1]]]_vars

\* Three registrations, the third with period 0, fill slots 0, 1 and 2.
C13_Witness ==
    /\ ncalls = 3
    /\ call = [op |-> "add", tsk |-> 3, prd |-> 0]
    /\ s_task_list[2] = [task |-> 3, period |-> 1]
    /\ s_task_list[0].task # NULL /\ s_task_list[1].task # NULL

\* C14: a call for one task leaves the entry of every other registered task
\* as it was: same slot, same period, and the same due test at this counter.
C14_OthersUntouched ==
    [][IsCall =>
        \A idx \in Slots :
            s_task_list[idx].task \notin {NULL, call'.tsk}
                => /\ s_task_list'[idx] = s_task_list[idx]
                   /\ DueIn(s_task_list', idx) = DueIn(s_task_list, idx)]_vars

\* Task 2 sits in slot 1 with period 5 while another task was just removed
\* from slot 0 and a third is registered in slot 2.
C14_Witness ==
    /\ call.op = "remove" /\ call.tsk # 2
    /\ s_task_list[0] = EmptySlot
    /\ s_task_list[1] = [task |-> 2, period |-> 5]
    /\ s_task_list[2].task # NULL


(***************************************************************************)
(*                        Output driver properties                         *)
(***************************************************************************)

\* The calls one invocation of led_update_brightness is to make.
DriverCalls(a) ==
    << Logged("dac_enable_output", 0),
       Logged("dac_set_output", a.led_brightness),
       Logged("dac_set_led", a.led_id),
       Logged("dac_enable_output", 1) >>

IsPrefix(p, q) ==
    /\ Len(p) <= Len(q)
    /\ \A k \in 1 .. Len(p) : p[k] = q[k]

\* C2: every invocation of the driver disables the switch, sets the DAC level,
\* sets the select lines and enables the switch, in that order, each once.
C2_DriverCallSequence ==
    /\ IsPrefix(dcalls, DriverCalls(arg))
    /\ (lpc = "return" \/ (lpc = "idle" /\ hist # <<>>))
            => dcalls = DriverCalls(arg)

C2_Witness ==
    /\ lpc = "return"
    /\ arg = [led_id |-> 5, led_brightness |-> 4097]
    /\ dcalls = DriverCalls(arg)

\* C3: after led_init the DAC level and the select lines change only while
\* nEnable is high; at most one channel is open, and an open channel sees the
\* level the driver programmed for it.
C3_ChangeOnlyWhileClosed ==
    [][led_ready =>
        /\ (DAC_DHR12R1' # DAC_DHR12R1 \/ Selected(GPIOA_ODR') # Selected(GPIOA_ODR))
                => (NEnableHigh(GPIOA_ODR) /\ NEnableHigh(GPIOA_ODR'))
        /\ Cardinality(OpenChannels(GPIOA_ODR')) <= 1
        /\ \A led \in OpenChannels(GPIOA_ODR') : DAC_DHR12R1' = level_for'[led]]_vars

C3_Witness ==
    /\ led_ready
    /\ lpc = "return"
    /\ OpenChannels(GPIOA_ODR) = {5}
    /\ DAC_DHR12R1 = 1
    /\ s_led_brightness[5] = 4097

\* C4: the driver addresses the channels in increasing order, wrapping from the
\* last to channel 0, so any LED_COUNT consecutive invocations address every
\* channel once; the first invocation addresses channel 0.
C4_RoundRobin ==
    /\ \A k \in 1 .. (Len(hist) - 1) : hist[k + 1] = (hist[k] + 1) % LED_COUNT
    /\ (hist # <<>> /\ Len(hist) < LED_COUNT) => hist[1] = 0
    /\ Len(hist) = LED_COUNT => {hist[k] : k \in DOMAIN hist} = Leds
    /\ lpc = "return" => Selected(GPIOA_ODR) = hist[Len(hist)]

C4_Witness ==
    /\ lpc = "return"
    /\ hist = <<3, 4, 5, 6, 7, 0, 1, 2>>


\* The low 12 bits of a 32-bit value in two's complement.
Low12(v) == v - 4096 * (v \div 4096)

\* C23: a brightness written to a valid channel and not overwritten is what
\* the next invocation for that channel programs into the DAC (modulo 4096),
\* and that invocation is at most the LED_COUNT-th after the write.
C23_WriteAppliedOnNextPass ==
    /\ \A led \in Leds : pending[led] <= LED_COUNT
    /\ (lpc = "return" /\ pending[arg.led_id] >= 0) =>
            /\ DAC_DHR12R1 = Low12(s_led_brightness[arg.led_id])
            /\ Logged("dac_set_output", s_led_brightness[arg.led_id])
                    \in {dcalls[n] : n \in DOMAIN dcalls}

\* Channel 5 was written right after its own invocation: the write is applied
\* by the LED_COUNT-th invocation after it.
C23_Witness ==
    /\ lpc = "return"
    /\ arg.led_id = 5
    /\ pending[5] = LED_COUNT
    /\ s_led_brightness[5] = 4097
    /\ DAC_DHR12R1 = 1

\* C24: the level in the converter is always within 0 .. 4095: once
\* dac_set_output has run it is the low 12 bits of the stored value.
C24_LevelIsLow12Bits ==
    /\ DAC_DHR12R1 \in 0 .. 4095
    /\ (\E n \in DOMAIN dcalls : dcalls[n].fn = "dac_set_output" /\ lpc # "idle")
            => DAC_DHR12R1 = Low12(arg.led_brightness)
    /\ \A led \in Leds : level_for[led] \in 0 .. 4095

\* The stored value 0xFFFFFFFF has been written to the converter as 4095.
C24_Witness ==
    /\ lpc = "enable"
    /\ arg.led_brightness = -1
    /\ s_led_brightness[arg.led_id] = -1
    /\ DAC_DHR12R1 = 4095

\* C25: a call of led_set_brightness with a channel index >= LED_COUNT changes
\* no stored brightness and nothing else.
C25_OutOfRangeWriteSwallowed ==
    [][(written' # written /\ written' >= LED_COUNT) =>
            UNCHANGED <<schedVars, calcVars, gpioVars, flyVars, mainVars, runVars, led_ready, s_led_brightness,
                        led_id, lpc, sel, arg, DAC_DHR12R1, GPIOA_MODER, GPIOA_ODR,
                        dcalls, level_for, hist, pending>>]_vars

\* An out-of-range call has just returned while channel 0 holds a brightness
\* that is still to be applied.
C25_Witness ==
    /\ written = LED_COUNT
    /\ s_led_brightness[0] = 150
    /\ pending[0] = 0

\* C28: between the return of led_init and the first invocation of the driver
\* the nEnable line is high, so no channel is open.
C28_SwitchDisabledAfterInit ==
    (led_ready /\ hist = <<>>) =>
        (NEnableHigh(GPIOA_ODR) /\ OpenChannels(GPIOA_ODR) = {})

(***************************************************************************)
(*                           Pin function properties                       *)
(***************************************************************************)

\* The function called last, applied to a register file.
GpioApplied(r) ==
    CASE gpio_fn = "gpio_cfg_input" -> gpio_cfg_input(r, gpio)
      [] gpio_fn = "gpio_cfg_output" -> gpio_cfg_output(r, gpio)
      [] gpio_fn = "gpio_output_set" ->
            [r EXCEPT !.ODR = gpio_output_set(@, gpio, gpio_state)]
      [] OTHER -> r

\* The descriptor is a null pointer, has a null port, or a pin above 15.
InvalidDescriptor ==
    \/ gpio = NullGpio
    \/ gpio.port = NoPort
    \/ gpio.pin > 15

\* C26: with an invalid descriptor gpio_cfg_input, gpio_cfg_output and
\* gpio_output_set change no register, and gpio_input_read returns low without
\* reading a port.
C26_InvalidDescriptorNoOp ==
    (gpio_fn # "none" /\ InvalidDescriptor) =>
        /\ regs = gpio_before
        /\ gpio_fn = "gpio_input_read" =>
                gpio_ret = [value |-> GPIO_STATE_LOW, read |-> FALSE]

\* gpio_cfg_output was called for pin 16 of a port whose clock is off and
\* whose pins all read high.
C26_Witness ==
    /\ gpio_fn = "gpio_cfg_output"
    /\ gpio = [port |-> GPIOA, pin |-> 16]
    /\ regs.AHBENR = {}
    /\ regs.IDR = Pins
    /\ regs.MODER = [pin \in Pins |-> 3]

\* C27: for a valid pin, gpio_cfg_output, gpio_cfg_input and gpio_output_set
\* applied a second time leave the registers as the first application did.
C27_Idempotent ==
    (gpio_fn \in {"gpio_cfg_input", "gpio_cfg_output", "gpio_output_set"}
        /\ ~InvalidDescriptor) =>
        /\ regs = GpioApplied(gpio_before)
        /\ GpioApplied(regs) = regs

\* gpio_cfg_output has rewritten every field of pin 15 and enabled the clock.
C27_Witness ==
    /\ gpio_fn = "gpio_cfg_output"
    /\ gpio = [port |-> GPIOA, pin |-> 15]
    /\ gpio_before.MODER[15] = 3 /\ regs.MODER[15] = 1
    /\ gpio_before.PUPDR[15] = 2 /\ regs.PUPDR[15] = 0
    /\ gpio_before.OSPEEDR[15] = 1 /\ regs.OSPEEDR[15] = 3
    /\ 15 \in gpio_before.ODR /\ 15 \notin regs.ODR
    /\ 15 \in gpio_before.OTYPER /\ 15 \notin regs.OTYPER
    /\ gpio_before.AHBENR = {} /\ regs.AHBENR = {GPIOA}
    /\ regs.MODER[14] = 3

(***************************************************************************)
(*                      Brightness function properties                     *)
(***************************************************************************)

\* The index of the first point of a pattern whose target is 0.
Terminator(id) ==
    CHOOSE k \in PointIndex :
        /\ flash_patterns[id][k].target = 0
        /\ \A j \in 0 .. (k - 1) : flash_patterns[id][j].target # 0

RECURSIVE SegStart(_, _)
SegStart(id, k) ==
    IF k = 0 THEN 0 ELSE SegStart(id, k - 1) + flash_patterns[id][k - 1].time

SegEnd(id, k) == SegStart(id, k) + flash_patterns[id][k].time

PatternLength(id) == SegEnd(id, Terminator(id))

Largest(S) == CHOOSE x \in S : \A y \in S : y <= x

Smallest(S) == CHOOSE x \in S : \A y \in S : x <= y

\* The smoothing window [WindowStart, WindowEnd) of a call.
HalfWidth(in) == in.smoothing \div 2

WindowWidth(in) == 2 * HalfWidth(in) + 1

WindowStart(in) == in.flash_time - HalfWidth(in)

WindowEnd(in) == WindowStart(in) + WindowWidth(in)

\* Segment k clipped to the window and to [0, pattern length].
ClipLo(in, k) == Largest({SegStart(in.flash_id, k), WindowStart(in), 0})

ClipHi(in, k) ==
    Smallest({SegEnd(in.flash_id, k), WindowEnd(in), PatternLength(in.flash_id)})

Trapezoid(in, k) ==
    IF ClipLo(in, k) < ClipHi(in, k)
    THEN (calculate_brightness_unsmoothed(in.flash_id, ClipLo(in, k))
            + calculate_brightness_unsmoothed(in.flash_id, ClipHi(in, k)))
         * (ClipHi(in, k) - ClipLo(in, k))
    ELSE 0

RECURSIVE TrapezoidSum(_, _)
TrapezoidSum(in, k) ==
    IF k < 0 THEN 0 ELSE Trapezoid(in, k) + TrapezoidSum(in, k - 1)

Reference(in) ==
    TrapezoidSum(in, Terminator(in.flash_id)) \div (2 * WindowWidth(in))

\* The unit steps [x, x + 1) of an accumulated interval <<t1, t2>>.
Cells(iv) == iv[1] .. (iv[2] - 1)

Accumulated(in) == SmoothedRun(in.flash_id, in.flash_time, in.smoothing).intervals

\* C17: calculate_brightness_smoothed equals the trapezoid sum over the
\* clipped segments divided by twice the window width, and the intervals it
\* accumulates are pairwise disjoint and cover the window inside the pattern.
C17_SmoothedIsReference ==
    calc_fn = "calculate_brightness_smoothed" =>
        /\ calc_out = Reference(calc_in)
        /\ \A a, b \in DOMAIN Accumulated(calc_in) :
                a # b => Cells(Accumulated(calc_in)[a])
                            \cap Cells(Accumulated(calc_in)[b]) = {}
        /\ UNION {Cells(Accumulated(calc_in)[a]) : a \in DOMAIN Accumulated(calc_in)}
                = Largest({WindowStart(calc_in), 0})
                    .. (Smallest({WindowEnd(calc_in),
                                  PatternLength(calc_in.flash_id)}) - 1)

\* A window over four flash points, clipped at both of its edges.
C17_Witness ==
    /\ calc_fn = "calculate_brightness_smoothed"
    /\ calc_in = [flash_id |-> 3, flash_time |-> 300, smoothing |-> 500]
    /\ Accumulated(calc_in) = <<<<50, 200>>, <<200, 300>>, <<300, 500>>, <<500, 551>>>>
    /\ calc_out > 0

\* C18: calculate_brightness_smoothed is 0 when the window ends at or before 0
\* or starts at or after the pattern length.
C18_ZeroOutsidePattern ==
    (/\ calc_fn = "calculate_brightness_smoothed"
     /\ \/ WindowEnd(calc_in) <= 0
        \/ WindowStart(calc_in) >= PatternLength(calc_in.flash_id))
        => calc_out = 0

\* The window starts exactly at the pattern length: no early return.
C18_Witness ==
    /\ calc_fn = "calculate_brightness_smoothed"
    /\ calc_in = [flash_id |-> 1, flash_time |-> 1250, smoothing |-> 500]
    /\ WindowStart(calc_in) = PatternLength(1)
    /\ calc_out = 0

\* C19: calculate_brightness_unsmoothed is 0 before time 0 and from the
\* pattern length on.
C19_ZeroOutsideFlash ==
    (/\ calc_fn = "calculate_brightness_unsmoothed"
     /\ \/ calc_in.flash_time < 0
        \/ calc_in.flash_time >= PatternLength(calc_in.flash_id))
        => calc_out = 0

C19_Witness ==
    /\ calc_fn = "calculate_brightness_unsmoothed"
    /\ calc_in.flash_id = 3
    /\ calc_in.flash_time = -1
    /\ calc_out = 0

\* C20: at the cumulative end time of point k the unsmoothed brightness is
\* point k's target; the second pattern gives 495 at 99 and 500 at 100.
C20_ContinuousAtBoundaries ==
    calc_fn = "calculate_brightness_unsmoothed" =>
        /\ \A k \in 0 .. Terminator(calc_in.flash_id) :
                calc_in.flash_time = SegEnd(calc_in.flash_id, k)
                    => calc_out = flash_patterns[calc_in.flash_id][k].target
        /\ (calc_in.flash_id = 1 /\ calc_in.flash_time = 99) => calc_out = 495
        /\ (calc_in.flash_id = 1 /\ calc_in.flash_time = 100) => calc_out = 500

C20_Witness ==
    /\ calc_fn = "calculate_brightness_unsmoothed"
    /\ calc_in.flash_id = 1
    /\ calc_in.flash_time = 100
    /\ calc_out = 500

\* The point that is current at time t: the first whose end time exceeds t.
CurrentPoint(id, t) ==
    Smallest({k \in 0 .. Terminator(id) : SegEnd(id, k) > t})

\* The target of the point in front of point k (0 in front of the first).
PrevTarget(id, k) == IF k = 0 THEN 0 ELSE flash_patterns[id][k - 1].target

\* q is the quotient n / d truncated toward zero (d > 0).
IsTruncated(q, n, d) ==
    IF n >= 0 THEN q * d <= n /\ n < (q + 1) * d
    ELSE (q - 1) * d < n /\ n <= q * d

\* C21: inside the pattern calculate_brightness_unsmoothed is
\* prev + trunc(d * (cur - prev) / duration) for the current point, and lies
\* between prev and cur inclusive.
C21_LinearInterpolation ==
    (/\ calc_fn = "calculate_brightness_unsmoothed"
     /\ calc_in.flash_time >= 0
     /\ calc_in.flash_time < PatternLength(calc_in.flash_id))
        => LET id == calc_in.flash_id
               k == CurrentPoint(id, calc_in.flash_time)
               cur == flash_patterns[id][k].target
               prev == PrevTarget(id, k)
               d == calc_in.flash_time - SegStart(id, k)
           IN  /\ IsTruncated(calc_out - prev, d * (cur - prev),
                              flash_patterns[id][k].time)
               /\ Smallest({prev, cur}) <= calc_out
               /\ calc_out <= Largest({prev, cur})

\* A falling segment whose quotient is not exact: 1000 - trunc(33 * 999 / 100).
C21_Witness ==
    /\ calc_fn = "calculate_brightness_unsmoothed"
    /\ calc_in.flash_id = 2
    /\ calc_in.flash_time = 133
    /\ calc_out = 671

\* C22: calculate_flash_length is the sum of the durations of the points up to
\* and including the first point whose target is 0, whatever the points after
\* it hold; the second pattern is 1000 long.
C22_LengthThroughTerminator ==
    calc_fn = "calculate_flash_length" =>
        /\ calc_out = PatternLength(calc_in.flash_id)
        /\ \A j \in (Terminator(calc_in.flash_id) + 1) .. (FIREFLY_FLASHPOINTS_MAX - 1) :
                FlashLengthFrom([flash_patterns[calc_in.flash_id]
                                    EXCEPT ![j] = Point(700, 90)], 0, 0) = calc_out
        /\ calc_in.flash_id = 1 => calc_out = 1000

C22_Witness ==
    /\ calc_fn = "calculate_flash_length"
    /\ calc_in.flash_id = 1
    /\ calc_out = 1000


(***************************************************************************)
(*                      Animation engine properties                        *)
(***************************************************************************)

\* C15: the engine, finding a firefly waiting, starts a flash when delay_time
\* has reached delay_len (flash_id, smoothing and the next delay_len drawn in
\* their ranges, flash_time = -(smoothing/2), delay_time = 0, the brightness
\* kept), and otherwise adds the time step to delay_time and changes no other
\* field; no other firefly changes.
C15_WaitingStep ==
    [][(fpc = "loop" /\ ~s_fireflies[fly_i].flashing) =>
        LET old == s_fireflies[fly_i]
            new == s_fireflies'[fly_i]
        IN  /\ \A f \in Flies \ {fly_i} : s_fireflies'[f] = s_fireflies[f]
            /\ IF old.delay_time >= old.delay_len
               THEN /\ new.flashing
                    /\ new.flash_id \in FLASH_FIRST .. FLASH_LAST
                    /\ new.smoothing \in FIREFLY_SMOOTHING_MIN .. FIREFLY_SMOOTHING_MAX
                    /\ new.flash_time = -(new.smoothing \div 2)
                    /\ new.delay_time = 0
                    /\ new.delay_len \in FIREFLY_DELAY_MIN .. FIREFLY_DELAY_MAX
                    /\ new.brightness = old.brightness
               ELSE new = [old EXCEPT !.delay_time = old.delay_time + FIREFLY_TIMESTEP]
      ]_vars

\* A flash of the last pattern has just been started with an odd smoothing value.
C15_Witness ==
    /\ s_fireflies[0].flashing
    /\ s_fireflies[0].flash_id = FLASH_LAST
    /\ s_fireflies[0].smoothing = 499
    /\ s_fireflies[0].flash_time = -249
    /\ s_fireflies[0].delay_time = 0
    /\ s_fireflies[0].delay_len = FIREFLY_DELAY_MAX

\* C16: the engine, finding a firefly flashing, adds the time step to
\* flash_time, recomputes the brightness at the new flash_time, and clears
\* flashing exactly when that brightness is 0 and smoothing < flash_time.
C16_FlashingStep ==
    [][(fpc = "loop" /\ s_fireflies[fly_i].flashing) =>
        LET old == s_fireflies[fly_i]
            new == s_fireflies'[fly_i]
        IN  /\ new.flash_time = old.flash_time + FIREFLY_TIMESTEP
            /\ new.brightness =
                calculate_brightness_smoothed(old.flash_id, new.flash_time,
                                              old.smoothing)
            /\ ~new.flashing <=>
                (new.brightness = 0 /\ old.smoothing < new.flash_time)
            /\ new.flash_id = old.flash_id /\ new.smoothing = old.smoothing
      ]_vars

\* A flash of the fourth pattern has ended and the firefly waits again.
C16_Witness ==
    /\ ~s_fireflies[0].flashing
    /\ s_fireflies[0].flash_id = 3
    /\ s_fireflies[0].smoothing = FIREFLY_SMOOTHING_MAX
    /\ s_fireflies[0].brightness = 0
    /\ s_fireflies[0].flash_time > PatternLength(3)

\* C29: flashing is cleared only at a flash_time at or after the end of the
\* selected pattern; while flash_time is above the smoothing value and inside
\* the pattern the smoothed brightness is not 0.
C29_FlashPlayedOut ==
    [][(fpc = "loop" /\ s_fireflies[fly_i].flashing) =>
        LET old == s_fireflies[fly_i]
            new == s_fireflies'[fly_i]
        IN  /\ ~new.flashing => new.flash_time >= PatternLength(old.flash_id)
            /\ (old.smoothing < new.flash_time
                    /\ new.flash_time < PatternLength(old.flash_id))
                    => new.brightness > 0
      ]_vars

\* A flash of the third pattern with the smallest smoothing value has ended
\* at the first step whose window starts after the pattern.
C29_Witness ==
    /\ ~s_fireflies[0].flashing
    /\ s_fireflies[0].flash_id = 2
    /\ s_fireflies[0].smoothing = FIREFLY_SMOOTHING_MIN
    /\ s_fireflies[0].flash_time = 527
    /\ s_fireflies[0].brightness = 0
    /\ s_fireflies[0].delay_time = 0

\* C30: every flashing firefly is waiting again later, with a flash_time that
\* is less than one time step above the pattern length plus the smoothing
\* value: the flash ended no later than the first invocation above that sum.
C30_FlashEnds ==
    \A f \in Flies :
        s_fireflies[f].flashing ~>
            (/\ ~s_fireflies[f].flashing
             /\ s_fireflies[f].flash_time
                    <= PatternLength(s_fireflies[f].flash_id)
                            + s_fireflies[f].smoothing + FIREFLY_TIMESTEP)

\* A flash of the fifth pattern with the largest smoothing value has ended
\* before flash_time passed 300 + 500, and the firefly waits again.
C30_Witness ==
    /\ ~s_fireflies[0].flashing
    /\ s_fireflies[0].flash_id = 4
    /\ s_fireflies[0].smoothing = FIREFLY_SMOOTHING_MAX
    /\ s_fireflies[0].flash_time > PatternLength(4)
    /\ s_fireflies[0].flash_time <= PatternLength(4) + FIREFLY_SMOOTHING_MAX
    /\ s_fireflies[0].delay_time > 0

(***************************************************************************)
(*                 The analog switch between two invocations               *)
(***************************************************************************)

\* The select lines that are high.
HighLines(odr) ==
    {k \in ANALOG_SWITCH_SELECT_0 .. ANALOG_SWITCH_SELECT_2 :
        analog_switch_io[k].pin \in odr}

\* The positions of the 1 bits of a channel number.
OneBits(c) ==
    CHOOSE S \in SUBSET (ANALOG_SWITCH_SELECT_0 .. ANALOG_SWITCH_SELECT_2) :
        c = (IF 0 \in S THEN 1 ELSE 0) + (IF 1 \in S THEN 2 ELSE 0)
                + (IF 2 \in S THEN 4 ELSE 0)

\* C38: once the driver's invocation for channel c has completed, and until
\* the next invocation begins, select line k is high exactly when bit k of c
\* is 1, and nEnable is low.
C38_LinesShowChannel ==
    ((lpc = "return" \/ lpc = "idle") /\ hist # <<>>) =>
        /\ HighLines(GPIOA_ODR) = OneBits(arg.led_id)
        /\ ~NEnableHigh(GPIOA_ODR)

\* The invocation for channel 5 has returned and a brightness was written
\* since: lines 0 and 2 are high, line 1 and nEnable are low.
C38_Witness ==
    /\ lpc = "idle"
    /\ arg.led_id = 5
    /\ written = 0
    /\ GPIOA_ODR = {analog_switch_io[0].pin, analog_switch_io[2].pin}

(***************************************************************************)
(*                  The engine and the exposed brightness                  *)
(***************************************************************************)

\* C32: while a firefly is waiting, the stored brightness of its channel is 0
\* (the array is zero at start-up and the last value the engine writes for a
\* flash is 0).
C32_WaitingChannelIsDark ==
    \A f \in Flies : ~s_fireflies[f].flashing => s_led_brightness[f] = 0

\* A flash of the third pattern has ended: the engine's last write for it left
\* 0 in the channel.
C32_Witness ==
    /\ ~s_fireflies[0].flashing
    /\ s_fireflies[0].flash_id = 2
    /\ s_fireflies[0].flash_time > PatternLength(2)
    /\ written = 0
    /\ s_led_brightness[0] = 0

\* C33: an invocation that finds a firefly flashing stores, for its channel,
\* the brightness it has just recomputed times 150 / 1000, truncated, a value
\* in 0 .. 150; an invocation that finds it waiting stores nothing.
C33_FlashingWritesScaled ==
    [][fpc = "loop" =>
        IF s_fireflies[fly_i].flashing
        THEN /\ IsTruncated(s_led_brightness'[fly_i],
                            s_fireflies'[fly_i].brightness * 150, 1000)
             /\ s_led_brightness'[fly_i] \in 0 .. 150
             /\ written' = fly_i
             /\ pending'[fly_i] = 0
        ELSE UNCHANGED <<s_led_brightness, written, pending>>]_vars

\* A flashing firefly near its peak, with a brightness whose scaled value is
\* no whole number: the channel holds the truncated quotient.
C33_Witness ==
    /\ s_fireflies[0].flashing
    /\ written = 0
    /\ s_fireflies[0].brightness > 900
    /\ s_led_brightness[0] * 1000 < s_fireflies[0].brightness * 150
    /\ s_led_brightness[0] > 135

\* C34: the delay counter stands still while a firefly flashes; an invocation
\* that finds a firefly waiting starts the flash exactly when delay_time has
\* reached delay_len; and the flash starts on invocation number
\* ceil(delay_len / FIREFLY_TIMESTEP) + 1 of the waiting period, for the
\* delay_len the period began with.
C34_WaitingPeriodLength ==
    [][\A f \in Flies :
        LET firefly == s_fireflies[f]
            n == waits'[f] - 1
        IN  /\ firefly.flashing => s_fireflies'[f].delay_time = firefly.delay_time
            /\ (fpc = "loop" /\ fly_i = f /\ ~firefly.flashing) =>
                    /\ s_fireflies'[f].flashing <=>
                            firefly.delay_time >= firefly.delay_len
                    /\ waits'[f] = waits[f] + 1
            /\ (~firefly.flashing /\ s_fireflies'[f].flashing) =>
                    /\ (n - 1) * FIREFLY_TIMESTEP < firefly.delay_len
                    /\ firefly.delay_len <= n * FIREFLY_TIMESTEP]_vars

\* A flash starts after a waiting period of 127 invocations that followed an
\* earlier flash: the delay drawn was 1001, and ceil(1001 / 8) = 126.
C34_Witness ==
    /\ s_fireflies[0].flashing
    /\ s_fireflies[0].flash_time < 0
    /\ s_fireflies[0].smoothing = FIREFLY_SMOOTHING_MAX
    /\ s_led_brightness[0] = 0
    /\ written = 0
    /\ waits[0] = 127

C36_NoHalfWrittenSlot ==
    pc = "tick" =>
        \A idx \in Slots :
            s_task_list[idx].task # NULL =>
                /\ s_task_list[idx].period >= 1
                /\ s_task_list[idx].period = want[idx]

(***************************************************************************)
(*                     The tick path of the whole program                  *)
(***************************************************************************)

\* C35: the callbacks of one tick are called one after the other in
\* increasing slot order, and in a tick that calls both the output driver
\* and the animation engine the driver is called first.
C35_SlotOrderInTick ==
    \A a, b \in DOMAIN fired :
        /\ a < b => fired[a].slot < fired[b].slot
        /\ (fired[a].task = led_periodic_callback
                /\ fired[b].task = firefly_periodic_callback) => a < b

\* A tick that has called the driver, the engine and the timeout callback.
C35_Witness ==
    /\ pc = "ret"
    /\ fired = << [slot |-> 0, task |-> led_periodic_callback],
                  [slot |-> 1, task |-> firefly_periodic_callback],
                  [slot |-> 2, task |-> main_timeout_callback] >>
    /\ s_fireflies[0].flashing

\* The step is a call of tsk from the tick handler.
Calls(tsk) ==
    /\ Len(fired') = Len(fired) + 1
    /\ fired'[Len(fired')].task = tsk

\* Ticks since the engine wrote the value of channel led that is still to be
\* programmed, read off the tick counter.
TicksSinceWrite(cnt, at) == (cnt - at) % CounterMod

\* C31: with the driver called every tick and the engine every LED_COUNT
\* ticks, a value the engine writes for a channel is programmed into the DAC
\* for that channel by a driver invocation 1 .. LED_COUNT ticks later, and
\* when the engine is called next that has happened exactly once.
C31_WriteShownOnceInTime ==
    [][/\ \A led \in Leds :
            /\ wrote_at'[led] >= 0
                    => TicksSinceWrite(counter', wrote_at'[led]) <= LED_COUNT
            /\ shown'[led] <= 1
       /\ Calls(firefly_periodic_callback) =>
            \A led \in Leds :
                shown[led] >= 0 => (shown[led] = 1 /\ wrote_at[led] = -1)
       /\ (Calls(led_periodic_callback) /\ wrote_at[led_id] >= 0) =>
            /\ DAC_DHR12R1' = Low12(s_led_brightness[led_id])
            /\ level_for'[led_id] = DAC_DHR12R1'
            /\ Selected(GPIOA_ODR') = led_id
            /\ TicksSinceWrite(counter, wrote_at[led_id]) \in 1 .. LED_COUNT]_vars

\* The driver has just programmed channel 0 with a value the engine wrote
\* LED_COUNT ticks ago, in a tick in which the engine is due next.
C31_Witness ==
    /\ pc = "tick"
    /\ i = 1
    /\ s_task_list[1].task = firefly_periodic_callback
    /\ Dividend(counter, 1) % FIREFLY_TIMESTEP = 0
    /\ arg.led_id = 0
    /\ shown[0] = 1
    /\ wrote_at[0] = -1
    /\ s_led_brightness[0] > 0
    /\ DAC_DHR12R1 = s_led_brightness[0]

====
